---- MODULE Spec2Model ----
(***************************************************************************)
(* Model of the pi-agent print-job agent (V6 modular architecture):        *)
(* job-handler.js (pollForJobs / processJob), utils.js (classifier,        *)
(* converters, verifyPDF), printer.js (printDocument) and the socket       *)
(* connect handler of socket-client.js.  Spec is the agent with an         *)
(* explicitly configured printer, SpecAuto the agent in auto mode.         *)
(*                                                                         *)
(* JavaScript runs one handler at a time until it awaits.  Every action    *)
(* below is one such run-to-await segment.  The only hand-off that is      *)
(* split in two is the call of processJob: the caller stores the job id    *)
(* in `call` and ProcessJobEntry is then the only enabled action.          *)
(*                                                                         *)
(* Strings that the code takes apart (job ids, filenames, paths) are       *)
(* sequences of one-character strings.  All paths live in the scratch      *)
(* directory ./print-queue; a path is modelled by its name inside that     *)
(* directory (the directory prefix contains no "." and is never changed).  *)
(* Job ids are non-empty (truthy) strings.                                 *)
(***************************************************************************)
EXTENDS Integers, Sequences, FiniteSets, TLC

\* ------------------------------------------------------------------ bounds
\* polls issued (state.pollCount is capped here)
MaxPolls == 2
\* job descriptors delivered by the cloud, over all poll responses
MaxJobs == 2
\* pages of a parsed PDF
MaxPages == 2
\* connect handlers that await detectPrinter at the same time
MaxDetecting == 1
\* milliseconds the clock advances while the sweep is followed, and the
\* spread of the modification times it meets
MaxElapsed == 2
\* sweep ticks followed
MaxSweeps == 2
\* lines of lpstat output handed to detectPrinter
MaxLines == 3
\* phrases in the lpstat output handed to checkPrinterStatus
MaxPhrases == 2
\* ticks of the daily reset interval
MaxDailyTicks == 2
\* poll intervals started by connect events
MaxPollers == 2
\* runs of the heartbeat callback
MaxHeartbeats == 2

\* --------------------------------------------------------------- constants
\* null / undefined for a job id (currentJob, call): the empty string
NULL == <<>>
\* job.pages absent (undefined); falsy like 0
NoPages == 0
\* state.printerName before any successful detection
NoPrinter == "null"
\* state.lastPollTime before the first poll (null)
NoTime == -1

\* the sweep: `ageMinutes > 30`
MaxAgeMinutes == 30
\* the sweep: `(now - stats.mtimeMs) / 1000 / 60`
MsPerMinute == 1000 * 60

\* printers the spooler may report to detectPrinter in auto mode
PrinterNames == { "HP" }
\* process.env.PRINTER_NAME when a printer is configured explicitly
ConfiguredPrinter == "HP"

\* the job descriptors the cloud may deliver: every file kind, pages given
\* and absent, and ids that are delivered with two different descriptors
Descriptors ==
  { [ job_id |-> <<"j","1">>, filename |-> <<"a",".","p","d","f">>, pages |-> MaxPages ],
    [ job_id |-> <<"j","1">>, filename |-> <<"a",".","p","d","f">>, pages |-> NoPages ],
    [ job_id |-> <<"j","2">>, filename |-> <<"b",".","d","o","c","x">>, pages |-> NoPages ],
    [ job_id |-> <<"j","2">>, filename |-> <<"d",".","g","i","f">>, pages |-> NoPages ],
    [ job_id |-> <<"j","3">>, filename |-> <<"c",".","p","n","g">>, pages |-> MaxPages ] }

\* ------------------------------------------------------------ string tools
Upper == <<"A","B","C","D","E","F","G","H","I","J","K","L","M",
           "N","O","P","Q","R","S","T","U","V","W","X","Y","Z">>
Lower == <<"a","b","c","d","e","f","g","h","i","j","k","l","m",
           "n","o","p","q","r","s","t","u","v","w","x","y","z">>

ToLowerChar(c) ==
  IF \E i \in 1..Len(Upper) : Upper[i] = c
  THEN Lower[CHOOSE i \in 1..Len(Upper) : Upper[i] = c]
  ELSE c

toLowerCase(s) == [ i \in 1..Len(s) |-> ToLowerChar(s[i]) ]

\* index of the last "." of s, 0 when there is none
LastDot(s) ==
  IF \E i \in 1..Len(s) : s[i] = "."
  THEN CHOOSE i \in 1..Len(s) : s[i] = "." /\ \A k \in (i+1)..Len(s) : s[k] # "."
  ELSE 0

\* path.extname of a name without path separator: from the last "." to the
\* end; empty when there is no ".", when the last "." is the first
\* character, and for the name ".."
extname(s) ==
  IF LastDot(s) <= 1 \/ s = << ".", "." >> THEN <<>>
  ELSE SubSeq(s, LastDot(s), Len(s))

\* path.basename(p, ext): p without the trailing ext
basename(s, ext) ==
  IF Len(ext) > 0 /\ Len(ext) < Len(s)
     /\ SubSeq(s, Len(s) - Len(ext) + 1, Len(s)) = ext
  THEN SubSeq(s, 1, Len(s) - Len(ext))
  ELSE s

\* String.prototype.replace(pattern, replacement) with a string pattern:
\* replaces the first occurrence only, returns s unchanged when none
MatchAt(s, pat, i) ==
  /\ i + Len(pat) - 1 <= Len(s)
  /\ SubSeq(s, i, i + Len(pat) - 1) = pat

replace(s, pat, rep) ==
  IF \E i \in 1..Len(s) : MatchAt(s, pat, i)
  THEN LET i == CHOOSE k \in 1..Len(s) :
                  MatchAt(s, pat, k) /\ \A m \in 1..(k-1) : ~MatchAt(s, pat, m)
       IN SubSeq(s, 1, i - 1) \o rep \o SubSeq(s, i + Len(pat), Len(s))
  ELSE s

DotPdf == <<".","p","d","f">>

DocumentExts ==
  { <<".","d","o","c">>, <<".","d","o","c","x">>, <<".","r","t","f">>,
    <<".","o","d","t">>, <<".","t","x","t">>, <<".","m","d">> }

ImageExts ==
  { <<".","p","n","g">>, <<".","j","p","g">>, <<".","j","p","e","g">> }

\* variant: the extension is compared as it is written
getFileTypeCaseSensitive(filename) ==
  LET ext == extname(filename) IN
  IF ext = DotPdf THEN "pdf"
  ELSE IF ext \in DocumentExts THEN "document"
  ELSE IF ext \in ImageExts THEN "image"
  ELSE "unknown"

getFileType(filename) ==
  LET ext == toLowerCase(extname(filename)) IN
  IF ext = DotPdf THEN "pdf"
  ELSE IF ext \in DocumentExts THEN "document"
  ELSE IF ext \in ImageExts THEN "image"
  ELSE "unknown"

\* path.join(tempDir, `${jobId}_${job.filename}`)
OriginalPath(jobId, filename) == jobId \o <<"_">> \o filename

\* convertDocumentToPDF: path.join(outputDir, `${baseName}.pdf`)
DocumentOutputPath(inputPath) ==
  basename(inputPath, extname(inputPath)) \o DotPdf

\* convertImageToPDF: inputPath.replace(ext, ".pdf"), ext lower-cased
ImageOutputPath(inputPath) ==
  CHOOSE outputPath \in { replace(inputPath, ext, DotPdf) :
                            ext \in { toLowerCase(extname(inputPath)) } } : TRUE

\* ------------------------------------------------------------------ errors
\* error.message as a sequence of words; the last word of a tool error is
\* the tool's diagnostic text
Diag == "stderr"
MsgIntake == << "TypeError" >>
MsgUnsupported(fileType) == << "Unsupported", "file", "type:", fileType >>
\* variant: the office converter's failure is reported without its kind
MsgLibreOfficePlain == << "LibreOffice", "failed:", Diag >>
MsgLibreOffice == << "LibreOffice", "conversion", "failed:", Diag >>
MsgNoOutput == << "PDF", "output", "file", "not", "created" >>
MsgBadImageExt == << "Unsupported", "image", "format:" >>
MsgNoImageMagick ==
  << "ImageMagick", "not", "found.", "Install", "with:", "sudo", "apt",
     "install", "imagemagick" >>
MsgImageFailed == << "Image", "conversion", "failed:", Diag >>
MsgImageNoOutput == << "PDF", "output", "not", "created", "by", "ImageMagick" >>
MsgVerify == << "PDF", "verification", "failed:", Diag >>
MsgPrint == << "Print", "command", "failed:", Diag >>

Contains(msg, word) == \E i \in 1..Len(msg) : msg[i] = word

\* ------------------------------------------------------------------- state
VARIABLES
  connected,        \* socket.connected
  printerName,      \* state.printerName
  detecting,        \* connect handlers awaiting detectPrinter
  registered,       \* register events emitted since the last connect event
  currentJob,       \* state.currentJob
  pendingJobs,      \* state.pendingJobs: Map in insertion order, <<[key, job]>>
  pollCount,        \* state.pollCount
  jobsFetchedToday, \* state.jobsFetchedToday
  conversionsToday, \* state.conversionsToday
  lastPollTime,     \* state.lastPollTime: the instant of its ISO string
  inflight,         \* axios poll requests not yet answered
  call,             \* job id processJob has just been called with, or NULL
  runs,             \* activations of processJob in order of entry: those that
                    \* have not returned and, until the next poll step or
                    \* entry, the record of those that returned
  files,            \* paths that exist in the scratch directory
  timers,           \* scheduled cleanup closures (setTimeout 5000), oldest first
  fileName,         \* getFileType on its own: the argument
  fileKind,         \* getFileType on its own: the result, "none" before the call
  now,              \* Date.now(), milliseconds
  mtimeMs,          \* fs.statSync(path).mtimeMs of the files followed by the sweep
  sweepLog,         \* what the sweep ticks did, oldest first
  dailyTicks,       \* runs of the daily-reset interval callback, oldest first
  input,            \* a function followed on its own: its arguments and what
                    \* the tools it starts answer
  output,           \* the settlement of its promise
  pollers,          \* setInterval timers of startPolling that are running
  hbPending,        \* heartbeat callbacks awaiting checkPrinterStatus
  heartbeats,       \* heartbeat emits, oldest first, each with
                    \* socket.connected as it was at the emit
  shutdownLog,      \* what a signal handler did, in order
  exited            \* process.exit was called

\* the job handler, its socket and its timers
jobVars == << connected, printerName, detecting, registered, currentJob,
              pendingJobs, pollCount, jobsFetchedToday, conversionsToday,
              lastPollTime, inflight, call, runs, files, timers >>

\* the classifier on its own
classifyVars == << fileName, fileKind >>

\* the clock, the modification times and the record of the sweep; the
\* specifications of the job handler keep no time
sweepVars == << now, mtimeMs, sweepLog >>

\* a converter, detectPrinter or checkPrinterStatus on its own
unitVars == << input, output >>

\* the record of the daily reset
resetVars == << dailyTicks >>

\* the timers of the agent's life cycle and its shutdown; the specifications
\* of the job handler do not follow them
lifeVars == << pollers, hbPending, heartbeats, shutdownLog, exited >>

vars == << jobVars, classifyVars, unitVars, resetVars, lifeVars, sweepVars >>

counters == << pollCount, jobsFetchedToday, conversionsToday >>
socketVars == << connected, printerName, detecting, registered >>

\* ---------------------------------------------------------- Map operations
MapHas(m, k) == \E i \in 1..Len(m) : m[i].key = k
MapIndex(m, k) == CHOOSE i \in 1..Len(m) : m[i].key = k
MapGet(m, k) == m[MapIndex(m, k)].job
\* variant: a new key goes first
MapSetFront(m, k, v) ==
  IF MapHas(m, k)
  THEN [ m EXCEPT ![MapIndex(m, k)] = [ key |-> k, job |-> v ] ]
  ELSE << [ key |-> k, job |-> v ] >> \o m

\* Map.prototype.set: a new key goes last, an existing key keeps its place
MapSet(m, k, v) ==
  IF MapHas(m, k)
  THEN [ m EXCEPT ![MapIndex(m, k)] = [ key |-> k, job |-> v ] ]
  ELSE Append(m, [ key |-> k, job |-> v ])
MapDelete(m, k) == SelectSeq(m, LAMBDA e : e.key # k)
\* variant: the newest key instead of the oldest
LastKey(m) == m[Len(m)].key
\* pendingJobs.keys().next().value
FirstKey(m) == m[1].key

RECURSIVE SetAll(_, _)
\* for (const job of jobs) state.pendingJobs.set(job.job_id, job)
SetAll(m, jobs) ==
  IF jobs = <<>> THEN m
  ELSE SetAll(MapSet(m, Head(jobs).job_id, Head(jobs)), Tail(jobs))

\* ---------------------------------------------------------- socket events
\* variant: the event is put in front of the earlier ones
EmitFirst(conn, events, ev) == IF conn THEN << ev >> \o events ELSE events

\* socket.emit guarded by `if (socket.connected)`
EmitIf(conn, events, ev) == IF conn THEN Append(events, ev) ELSE events

EvReceived(jobId) ==
  [ type |-> "job_received", job_id |-> jobId, success |-> FALSE,
    pages_printed |-> NoPages, error |-> <<>> ]
EvStarted(jobId) ==
  [ type |-> "print_started", job_id |-> jobId, success |-> FALSE,
    pages_printed |-> NoPages, error |-> <<>> ]
EvCompleteOk(jobId, pages) ==
  [ type |-> "print_complete", job_id |-> jobId, success |-> TRUE,
    pages_printed |-> pages, error |-> <<>> ]
EvCompleteFail(jobId, msg) ==
  [ type |-> "print_complete", job_id |-> jobId, success |-> FALSE,
    pages_printed |-> NoPages, error |-> msg ]

\* ------------------------------------------------------ processJob, pieces
\* the activation record of one call of processJob (its locals and, as
\* history, what it emitted and which collaborators it invoked)
NewRun(jobId, job) ==
  [ jobId |-> jobId, job |-> job, stage |-> "entered",
    originalPath |-> OriginalPath(jobId, job.filename),
    finalPdfPath |-> OriginalPath(jobId, job.filename),
    saved |-> FALSE, fileType |-> "none", events |-> <<>>,
    convCalls |-> <<>>, printCalls |-> <<>>, counted |-> 0,
    warned |-> FALSE, error |-> <<>> ]

\* variant: the chain ends in a plain else that verifies
DispatchElseVerify(fileType) ==
  IF fileType = "document" THEN "convertDocumentToPDF"
  ELSE IF fileType = "image" THEN "convertImageToPDF"
  ELSE "verifyPDF"

\* variant: every supported kind other than image goes to the office converter
DispatchPdfConverted(fileType) ==
  IF fileType \in { "document", "pdf" } THEN "convertDocumentToPDF"
  ELSE IF fileType = "image" THEN "convertImageToPDF"
  ELSE "throw"

\* the if / else-if chain on fileType
Dispatch(fileType) ==
  IF fileType = "document" THEN "convertDocumentToPDF"
  ELSE IF fileType = "image" THEN "convertImageToPDF"
  ELSE IF fileType = "pdf" THEN "verifyPDF"
  ELSE "throw"

\* variant: the catch block calls the converter a second time
CatchErrorRetry(r, msg, conn) ==
  [ r EXCEPT !.stage = "failed", !.error = msg,
             !.convCalls = IF @ = <<>> THEN @ ELSE Append(@, @[1]),
             !.events = EmitIf(conn, @, EvCompleteFail(r.jobId, msg)) ]

\* variant: the catch block emits without asking socket.connected
CatchErrorAlways(r, msg, conn) ==
  [ r EXCEPT !.stage = "failed", !.error = msg,
             !.events = Append(@, EvCompleteFail(r.jobId, msg)) ]

\* variant: the catch block only logs
CatchErrorSilent(r, msg, conn) ==
  [ r EXCEPT !.stage = "failed", !.error = msg ]

\* the catch block: log, emit print_complete{success:false} when connected
CatchError(r, msg, conn) ==
  [ r EXCEPT !.stage = "failed", !.error = msg,
             !.events = EmitIf(conn, @, EvCompleteFail(r.jobId, msg)) ]

\* emit print_started when connected, then call printer.printDocument; the
\* call is recorded with the way its promise settles
StartPrint(r, conn, pn) ==
  [ r EXCEPT !.stage = "printing",
             !.events = EmitIf(conn, @, EvStarted(r.jobId)),
             !.printCalls = Append(@, [ printer |-> pn, file |-> r.finalPdfPath,
                                        pages |-> r.job.pages,
                                        settled |-> "pending" ]) ]

\* the exec callback of printDocument: reject on error, else resolve
Settle(r, lpError) ==
  [ r EXCEPT !.printCalls[Len(r.printCalls)].settled =
               IF lpError THEN "rejected" ELSE "resolved" ]

\* variant: the success branch reports a failure
NotifySuccessAsFailure(r, conn, printResultPages) ==
  [ r EXCEPT !.stage = "completed",
             !.events = EmitIf(conn, @, EvCompleteFail(r.jobId, MsgPrint)) ]

\* printDocument resolved: emit print_complete{success:true} when connected
NotifySuccess(r, conn, printResultPages) ==
  [ r EXCEPT !.stage = "completed",
             !.events = EmitIf(conn, @, EvCompleteOk(r.jobId, printResultPages)) ]

\* the closure handed to setTimeout(..., 5000)
CleanupTimer(r) ==
  [ jobId |-> r.jobId, finalPdfPath |-> r.finalPdfPath,
    originalPath |-> r.originalPath ]

\* variant: the timer callback empties the scratch directory
CleanupEverything(t, fs) == fs

\* what the timer callback unlinks
CleanupTargets(t, fs) == { t.finalPdfPath, t.originalPath } \cap fs

\* variant: the first pending job is started whether or not a job is current
MayStartJobUnguarded(cur, m) == Len(m) > 0

\* when may pollForJobs start the first pending job
MayStartJob(cur, m) == cur = NULL /\ Len(m) > 0

\* variant: the finally block returns without starting the next pending job
FinallyNoNext(m, jobId) ==
  [ currentJob |-> NULL, pendingJobs |-> MapDelete(m, jobId), call |-> NULL ]

\* variant: the finally block leaves the job in pendingJobs
FinallyKeepJob(m, jobId) ==
  [ currentJob |-> NULL, pendingJobs |-> m,
    call |-> IF Len(m) > 0 THEN FirstKey(m) ELSE NULL ]

\* the finally block: new currentJob, pendingJobs and the next job to call
\* processJob with (NULL when the queue is empty)
Finally(m, jobId) ==
  LET rest == MapDelete(m, jobId) IN
  [ currentJob |-> NULL, pendingJobs |-> rest,
    call |-> IF Len(rest) > 0 THEN FirstKey(rest) ELSE NULL ]

\* variant: a page mismatch is thrown like a parse failure
verifyPDFStrict(parsed, expectedPages) ==
  [ throws |-> (parsed = 0 \/ (expectedPages # NoPages /\ parsed # expectedPages)),
    pages |-> parsed,
    warned |-> (parsed # 0 /\ expectedPages # NoPages /\ parsed # expectedPages) ]

\* verifyPDF: parsed = 0 when PDFDocument.load throws, else the page count
verifyPDF(parsed, expectedPages) ==
  IF parsed = 0
  THEN [ throws |-> TRUE, pages |-> 0, warned |-> FALSE ]
  ELSE [ throws |-> FALSE, pages |-> parsed,
         warned |-> (expectedPages # NoPages /\ parsed # expectedPages) ]

\* convertDocumentToPDF: the exec callback
convertDocumentToPDFTrustExit(inputPath, exitError, fs) ==
  LET outputPath == DocumentOutputPath(inputPath) IN
  IF exitError THEN [ ok |-> FALSE, path |-> outputPath, msg |-> MsgLibreOffice ]
  ELSE [ ok |-> TRUE, path |-> outputPath, msg |-> <<>> ]

\* utils.convertDocumentToPDF: the exec callback, given whether the process
\* ended with an error and the files on disk at that moment
convertDocumentToPDF(inputPath, exitError, fs) ==
  LET outputPath == DocumentOutputPath(inputPath) IN
  IF exitError THEN [ ok |-> FALSE, path |-> outputPath, msg |-> MsgLibreOffice ]
  ELSE IF outputPath \in fs THEN [ ok |-> TRUE, path |-> outputPath, msg |-> <<>> ]
  ELSE [ ok |-> FALSE, path |-> outputPath, msg |-> MsgNoOutput ]

\* convertImageToPDF, the checks made before any tool is started:
\* <<>> when they pass, else the message of the rejection
MsgNoInput == << "Input", "image", "does", "not", "exist" >>
ImagePrecheck(inputPath, fs) ==
  IF inputPath \notin fs THEN MsgNoInput
  ELSE IF toLowerCase(extname(inputPath)) \notin ImageExts THEN MsgBadImageExt
  ELSE <<>>

\* convertImageToPDF, tryMagickV6: env says, for each tier, whether `which`
\* finds the tool, whether the tool exits with an error and whether it
\* writes the output file. The result lists the tier functions entered
\* (tried), the tools executed (tiers), the files afterwards and the calls
\* of resolve and reject made, in order (settles)
tryMagickV6(env, outputPath, fs) ==
  LET fs6 == IF env.v6present /\ env.v6wrote THEN fs \cup {outputPath} ELSE fs
  IN
  [ tried |-> << "tryMagickV6" >>,
    tiers |-> IF env.v6present THEN << "convert" >> ELSE <<>>,
    files |-> fs6,
    settles |-> << IF ~env.v6present
                   THEN [ ok |-> FALSE, msg |-> MsgNoImageMagick ]
                   ELSE IF env.v6error
                   THEN [ ok |-> FALSE, msg |-> MsgImageFailed ]
                   ELSE IF outputPath \notin fs6
                   THEN [ ok |-> FALSE, msg |-> MsgImageNoOutput ]
                   ELSE [ ok |-> TRUE, msg |-> <<>> ] >> ]

\* what tryMagickV7 leaves when it hands over to tryMagickV6
Fallback(env, outputPath, own) ==
  LET next == tryMagickV6(env, outputPath, own.files) IN
  [ tried |-> own.tried \o next.tried, tiers |-> own.tiers \o next.tiers,
    files |-> next.files, settles |-> own.settles \o next.settles ]

\* variant: a clean exit of magick resolves without looking for the file
tryMagickV7TrustExit(env, outputPath, fs) ==
  LET own == [ tried |-> << "tryMagickV7" >>,
               tiers |-> IF env.v7present THEN << "magick" >> ELSE <<>>,
               files |-> IF env.v7present /\ env.v7wrote
                         THEN fs \cup {outputPath} ELSE fs,
               settles |-> <<>> ]
  IN
  IF ~env.v7present THEN Fallback(env, outputPath, own)
  ELSE IF env.v7error THEN Fallback(env, outputPath, own)
  ELSE [ own EXCEPT !.settles = << [ ok |-> TRUE, msg |-> <<>> ] >> ]

\* convertImageToPDF, tryMagickV7
tryMagickV7(env, outputPath, fs) ==
  LET own == [ tried |-> << "tryMagickV7" >>,
               tiers |-> IF env.v7present THEN << "magick" >> ELSE <<>>,
               files |-> IF env.v7present /\ env.v7wrote
                         THEN fs \cup {outputPath} ELSE fs,
               settles |-> <<>> ]
  IN
  IF ~env.v7present THEN Fallback(env, outputPath, own)
  ELSE IF env.v7error THEN Fallback(env, outputPath, own)
  ELSE IF outputPath \notin own.files THEN Fallback(env, outputPath, own)
  ELSE [ own EXCEPT !.settles = << [ ok |-> TRUE, msg |-> <<>> ] >> ]

\* convertImageToPDF after its checks: tryMagickV7(); the promise takes the
\* first call of resolve or reject
convertImageToPDF(inputPath, env, fs) ==
  LET Settled(outputPath, t) ==
        [ ok |-> t.settles[1].ok, path |-> outputPath,
          msg |-> t.settles[1].msg, files |-> t.files, tiers |-> t.tiers,
          tried |-> t.tried, settles |-> t.settles ]
  IN
  CHOOSE res \in { Settled(outputPath, tryMagickV7(env, outputPath, fs)) :
                     outputPath \in { ImageOutputPath(inputPath) } } : TRUE

ImageEnvs ==
  [ v7present : BOOLEAN, v7error : BOOLEAN, v7wrote : BOOLEAN,
    v6present : BOOLEAN, v6error : BOOLEAN, v6wrote : BOOLEAN ]

\* --------------------------------------------------------------- behaviour
InitState ==
  /\ connected = FALSE
  /\ printerName = NoPrinter
  /\ detecting = 0
  /\ registered = <<>>
  /\ lastPollTime = NoTime
  /\ currentJob = NULL
  /\ pendingJobs = <<>>
  /\ pollCount = 0
  /\ jobsFetchedToday = 0
  /\ conversionsToday = 0
  /\ inflight = 0
  /\ call = NULL
  /\ runs = <<>>
  /\ files = {}
  /\ timers = <<>>

\* getFileType has not been called on its own
InitClassifyIdle ==
  /\ fileName = <<>>
  /\ fileKind = "none"

\* no time is kept and no sweep has run
InitSweepIdle ==
  /\ now = 0
  /\ mtimeMs = <<>>
  /\ sweepLog = <<>>

\* no converter, detectPrinter or checkPrinterStatus is followed on its
\* own
InitUnitIdle ==
  /\ input = [ fn |-> "none" ]
  /\ output = [ settled |-> "pending" ]

\* the daily reset is not followed
InitResetIdle == dailyTicks = <<>>

\* no life-cycle timer is followed and no signal has arrived
InitLifeIdle ==
  /\ pollers = 0
  /\ hbPending = 0
  /\ heartbeats = <<>>
  /\ shutdownLog = <<>>
  /\ exited = FALSE

Init ==
  /\ InitState /\ InitClassifyIdle /\ InitUnitIdle /\ InitResetIdle
  /\ InitLifeIdle /\ InitSweepIdle

\* no handler is on the JavaScript stack
Idle == call = NULL

Terminal(r) == r.stage \in { "completed", "failed" }

\* the activations that have not returned
Live(rs) == SelectSeq(rs, LAMBDA r : ~Terminal(r))

\* socket.emit('register', {..., printer_name: state.printerName || 'unknown'})
Register(pn) ==
  [ type |-> "register",
    printer_name |-> IF pn = NoPrinter THEN "unknown" ELSE pn ]

\* socket 'connect' with PRINTER_NAME set to a printer: detectPrinter resolves
\* at once with the configured name, unchecked, and the handler stores it
\* before any other event is handled
ConnectConfigured ==
  /\ Idle
  /\ UNCHANGED << classifyVars, unitVars, resetVars, lifeVars, sweepVars >>
  /\ ~connected
  /\ connected' = TRUE
  /\ printerName' = ConfiguredPrinter
  /\ registered' = << Register(printerName') >>
  /\ UNCHANGED << detecting, currentJob, pendingJobs, counters, inflight,
                  lastPollTime, call, runs, files, timers >>

\* socket 'connect' with PRINTER_NAME unset or 'auto': the handler starts
\* lpstat and awaits it
ConnectAuto ==
  /\ Idle
  /\ UNCHANGED << classifyVars, unitVars, resetVars, lifeVars, sweepVars >>
  /\ ~connected
  /\ detecting < MaxDetecting
  /\ connected' = TRUE
  /\ detecting' = detecting + 1
  /\ registered' = <<>>
  /\ UNCHANGED << printerName, currentJob, pendingJobs, counters, lastPollTime, inflight,
                  call, runs, files, timers >>

\* lpstat answered: set state.printerName, or keep it when detectPrinter
\* rejects; then emit register
DetectDone ==
  /\ Idle
  /\ UNCHANGED << classifyVars, unitVars, resetVars, lifeVars, sweepVars >>
  /\ detecting > 0
  /\ detecting' = detecting - 1
  /\ \E found \in PrinterNames \cup { NoPrinter } :
        printerName' = IF found = NoPrinter THEN printerName ELSE found
  /\ registered' = Append(registered, Register(printerName'))
  /\ UNCHANGED << connected, currentJob, pendingJobs, counters, lastPollTime, inflight, call,
                  runs, files, timers >>

\* variant: the disconnect handler drops the queue and the current job
DisconnectClearsQueue ==
  /\ Idle
  /\ UNCHANGED << classifyVars, unitVars, resetVars, lifeVars, sweepVars >>
  /\ connected
  /\ connected' = FALSE
  /\ currentJob' = NULL
  /\ pendingJobs' = <<>>
  /\ UNCHANGED << printerName, detecting, registered, counters, inflight,
                  lastPollTime, call, runs, files, timers >>

\* socket 'disconnect'
Disconnect ==
  /\ Idle
  /\ UNCHANGED << classifyVars, unitVars, resetVars, lifeVars, sweepVars >>
  /\ connected
  /\ connected' = FALSE
  /\ UNCHANGED << printerName, detecting, registered, currentJob, pendingJobs,
                  counters, inflight, lastPollTime, call, runs, files, timers >>

\* a poll timer fires: pollForJobs up to `await axios.get`; the two early
\* returns (not connected, job in progress) change nothing
PollTick ==
  /\ Idle
  /\ UNCHANGED << classifyVars, unitVars, resetVars, lifeVars, sweepVars >>
  /\ connected
  /\ currentJob = NULL
  /\ pollCount < MaxPolls
  /\ pollCount' = pollCount + 1
  /\ inflight' = inflight + 1
  /\ lastPollTime' = now
  /\ runs' = Live(runs)
  /\ UNCHANGED << socketVars, currentJob, pendingJobs, jobsFetchedToday,
                  conversionsToday, call, files, timers >>

\* response.data.jobs, a non-empty list of descriptors
Batches ==
  UNION { [ 1..n -> Descriptors ] : n \in 1..MaxJobs }

\* the poll request is answered with jobs
PollResponse ==
  /\ Idle
  /\ UNCHANGED << classifyVars, unitVars, resetVars, lifeVars, sweepVars >>
  /\ inflight > 0
  /\ \E jobs \in Batches :
        /\ jobsFetchedToday + Len(jobs) <= MaxJobs
        /\ jobsFetchedToday' = jobsFetchedToday + Len(jobs)
        /\ pendingJobs' = SetAll(pendingJobs, jobs)
        /\ call' = IF MayStartJob(currentJob, pendingJobs')
                   THEN FirstKey(pendingJobs') ELSE NULL
  /\ inflight' = inflight - 1
  /\ runs' = Live(runs)
  /\ UNCHANGED << socketVars, currentJob, pollCount, conversionsToday,
                  lastPollTime, files, timers >>

\* the poll request is answered without jobs, or fails and is caught
PollNoJobs ==
  /\ Idle
  /\ UNCHANGED << classifyVars, unitVars, resetVars, lifeVars, sweepVars >>
  /\ inflight > 0
  /\ inflight' = inflight - 1
  /\ runs' = Live(runs)
  /\ UNCHANGED << socketVars, currentJob, pendingJobs, counters, lastPollTime,
                  call, files, timers >>

\* store activation r at place i; place 0 is a new activation, which takes
\* the place of the records of the returned ones
PutRun(i, r) ==
  IF i = 0 THEN Append(Live(runs), r) ELSE [ runs EXCEPT ![i] = r ]

\* the run reaches a terminal state: store it and execute the finally block
Terminate(i, r) ==
  LET f == Finally(pendingJobs, r.jobId) IN
  /\ runs' = PutRun(i, r)
  /\ currentJob' = f.currentJob
  /\ pendingJobs' = f.pendingJobs
  /\ call' = f.call

\* the run goes on to its next await
Continue(i, r) ==
  /\ runs' = PutRun(i, r)
  /\ call' = NULL
  /\ UNCHANGED << pendingJobs >>

\* processJob from its entry to its first await (or to its end when it
\* throws before awaiting)
ProcessJobEntry ==
  /\ call # NULL
  /\ UNCHANGED << classifyVars, unitVars, resetVars, lifeVars, sweepVars >>
  /\ IF ~MapHas(pendingJobs, call)
     THEN /\ call' = NULL
          /\ UNCHANGED << socketVars, currentJob, pendingJobs, counters,
                          inflight, lastPollTime, runs, files, timers >>
     ELSE
       LET jobId == call
           job == MapGet(pendingJobs, jobId)
           i == 0
           r0 == NewRun(jobId, job)
       IN
       \E writeOk \in BOOLEAN :
         IF ~writeOk
         THEN /\ Terminate(i, CatchError(r0, MsgIntake, connected))
              /\ UNCHANGED << socketVars, counters, inflight, lastPollTime, files, timers >>
         ELSE
           LET fileType == getFileType(job.filename)
               r1 == [ r0 EXCEPT !.saved = TRUE, !.fileType = fileType,
                         !.events = EmitIf(connected, @, EvReceived(jobId)) ]
               fs1 == files \cup { r0.originalPath }
               step == Dispatch(fileType)
           IN
           /\ files' = fs1
           /\ UNCHANGED << socketVars, pollCount, jobsFetchedToday, inflight, lastPollTime,
                           timers >>
           /\ IF step = "convertDocumentToPDF"
              THEN /\ conversionsToday' = conversionsToday + 1
                   /\ currentJob' = jobId
                   /\ Continue(i, [ r1 EXCEPT !.stage = "converting",
                                      !.convCalls = Append(@, step) ])
              ELSE IF step = "convertImageToPDF"
              THEN /\ conversionsToday' = conversionsToday + 1
                   /\ IF ImagePrecheck(r1.originalPath, fs1) = <<>>
                      THEN /\ currentJob' = jobId
                           /\ Continue(i, [ r1 EXCEPT !.stage = "converting",
                                              !.convCalls = Append(@, step) ])
                      ELSE Terminate(i, CatchError(
                             [ r1 EXCEPT !.convCalls = Append(@, step) ],
                             ImagePrecheck(r1.originalPath, fs1), connected))
              ELSE IF step = "verifyPDF"
              THEN /\ UNCHANGED conversionsToday
                   /\ currentJob' = jobId
                   /\ Continue(i, [ r1 EXCEPT !.stage = "verifying" ])
              ELSE /\ UNCHANGED conversionsToday
                   /\ Terminate(i, CatchError(r1, MsgUnsupported(fileType),
                                              connected))

\* the exec callback of convertDocumentToPDF runs and processJob resumes
ConvertDocumentDone ==
  /\ Idle
  /\ UNCHANGED << classifyVars, unitVars, resetVars, lifeVars, sweepVars >>
  /\ \E i \in 1..Len(runs) :
       /\ runs[i].stage = "converting"
       /\ runs[i].fileType = "document"
       /\ \E exitError \in BOOLEAN, wrote \in BOOLEAN :
            LET r == runs[i]
                fs1 == IF wrote THEN files \cup { DocumentOutputPath(r.originalPath) }
                       ELSE files
                res == convertDocumentToPDF(r.originalPath, exitError, fs1)
            IN
            /\ files' = fs1
            /\ IF res.ok
               THEN /\ Continue(i, StartPrint([ r EXCEPT !.finalPdfPath = res.path ],
                                              connected, printerName))
                    /\ UNCHANGED currentJob
               ELSE Terminate(i, CatchError(r, res.msg, connected))
  /\ UNCHANGED << socketVars, counters, inflight, lastPollTime, timers >>

\* the image tools have run and processJob resumes
ConvertImageDone ==
  /\ Idle
  /\ UNCHANGED << classifyVars, unitVars, resetVars, lifeVars, sweepVars >>
  /\ \E i \in 1..Len(runs) :
       /\ runs[i].stage = "converting"
       /\ runs[i].fileType = "image"
       /\ \E env \in ImageEnvs :
            \E res \in { convertImageToPDF(runs[i].originalPath, env, files) } :
            LET r == runs[i] IN
            /\ files' = res.files
            /\ IF res.ok
               THEN /\ Continue(i, StartPrint([ r EXCEPT !.finalPdfPath = res.path ],
                                              connected, printerName))
                    /\ UNCHANGED currentJob
               ELSE Terminate(i, CatchError(r, res.msg, connected))
  /\ UNCHANGED << socketVars, counters, inflight, lastPollTime, timers >>

\* PDFDocument.load settled and processJob resumes
VerifyDone ==
  /\ Idle
  /\ UNCHANGED << classifyVars, unitVars, resetVars, lifeVars, sweepVars >>
  /\ \E i \in 1..Len(runs) :
       /\ runs[i].stage = "verifying"
       /\ \E parsed \in 0..MaxPages :
            LET res == verifyPDF(parsed, runs[i].job.pages)
                r == [ runs[i] EXCEPT !.counted = res.pages,
                                      !.warned = res.warned ]
            IN
            IF res.throws
            THEN Terminate(i, CatchError(r, MsgVerify, connected))
            ELSE /\ Continue(i, StartPrint(r, connected, printerName))
                 /\ UNCHANGED currentJob
  /\ UNCHANGED << socketVars, counters, inflight, lastPollTime, files, timers >>

\* the exec callback of printDocument runs and processJob resumes
PrintDone ==
  /\ Idle
  /\ UNCHANGED << classifyVars, unitVars, resetVars, lifeVars, sweepVars >>
  /\ \E i \in 1..Len(runs) :
       /\ runs[i].stage = "printing"
       /\ \E lpError \in BOOLEAN :
            LET r == Settle(runs[i], lpError) IN
            IF lpError
            THEN /\ Terminate(i, CatchError(r, MsgPrint, connected))
                 /\ UNCHANGED timers
            ELSE /\ Terminate(i, NotifySuccess(r, connected, r.job.pages))
                 /\ timers' = Append(timers, CleanupTimer(r))
  /\ UNCHANGED << socketVars, counters, inflight, lastPollTime, files >>

\* the oldest cleanup timer fires (all timers have the same delay)
CleanupFire ==
  /\ Idle
  /\ UNCHANGED << classifyVars, unitVars, resetVars, lifeVars, sweepVars >>
  /\ timers # <<>>
  /\ files' = files \ CleanupTargets(Head(timers), files)
  /\ timers' = Tail(timers)
  /\ UNCHANGED << socketVars, currentJob, pendingJobs, counters, inflight, lastPollTime,
                  call, runs >>

\* the job handler and its timers
Pipeline ==
  \/ PollTick
  \/ PollResponse
  \/ PollNoJobs
  \/ ProcessJobEntry
  \/ ConvertDocumentDone
  \/ ConvertImageDone
  \/ VerifyDone
  \/ PrintDone
  \/ CleanupFire

\* the agent with an explicitly configured printer
Next ==
  \/ ConnectConfigured
  \/ Disconnect
  \/ Pipeline

Spec == Init /\ [][Next]_vars

\* the agent in auto mode, where the printer is detected on every connect
NextAuto ==
  \/ ConnectAuto
  \/ DetectDone
  \/ Disconnect
  \/ Pipeline

SpecAuto == Init /\ [][NextAuto]_vars

\* the agent with a configured printer where every call processJob awaits
\* (the converter, verifyPDF, printDocument) settles and the continuation
\* that is ready to run is run
SpecFair ==
  /\ Spec
  /\ WF_vars(ProcessJobEntry)
  /\ WF_vars(ConvertDocumentDone)
  /\ WF_vars(ConvertImageDone)
  /\ WF_vars(VerifyDone)
  /\ WF_vars(PrintDone)

\* ----------------------------------------------- the classifier on its own
ToUpperChar(c) ==
  IF \E i \in 1..Len(Lower) : Lower[i] = c
  THEN Upper[CHOOSE i \in 1..Len(Lower) : Lower[i] = c]
  ELSE c

toUpperCase(s) == [ i \in 1..Len(s) |-> ToUpperChar(s[i]) ]

\* ".docx" written as ".Docx"
Capitalised(s) ==
  [ i \in 1..Len(s) |-> IF i = 2 THEN ToUpperChar(s[i]) ELSE s[i] ]

\* what precedes the last extension: a plain name, a name with a dot, a
\* name that already ends in a known extension, nothing, a single dot
Stems ==
  { << "a" >>, << "a", ".", "b" >>, << "a", ".", "p", "d", "f" >>, <<>>,
    << "." >> }

\* the known extensions in three spellings, and endings that are none of
\* them: no extension, a bare dot, unknown extensions, near misses
Endings ==
  UNION { { e, toUpperCase(e), Capitalised(e) } :
            e \in { DotPdf } \cup DocumentExts \cup ImageExts }
  \cup { <<>>, << "." >>, << ".", "g", "i", "f" >>, << ".", "p", "d", "f", "x" >>,
         << ".", "p", "d" >>, << "p", "d", "f" >>, << ".", "d", "o", "c", "m" >>,
         << ".", "j", "p", "e" >> }

\* the file names getFileType is called with (no path separator in them)
Filenames == { stem \o ending : stem \in Stems, ending \in Endings }

InitClassify ==
  /\ InitUnitIdle
  /\ InitResetIdle
  /\ InitLifeIdle
  /\ InitState
  /\ InitSweepIdle
  /\ fileName \in Filenames
  /\ fileKind = "none"

\* utils.getFileType(fileName)
Classify ==
  /\ fileKind = "none"
  /\ fileKind' = getFileType(fileName)
  /\ UNCHANGED << jobVars, unitVars, resetVars, lifeVars, sweepVars, fileName >>

NextClassify == Classify

SpecClassify == InitClassify /\ [][NextClassify]_vars

\* ------------------------------------------------- the sweep of the scratch
\* variant: a file of exactly the limit is deleted as well
OlderThanLimitInclusive(nowMs, mtime) ==
  nowMs - mtime >= MaxAgeMinutes * MsPerMinute

\* ageMinutes > 30, with ageMinutes = (now - stats.mtimeMs) / 1000 / 60
OlderThanLimit(nowMs, mtime) ==
  nowMs - mtime > MaxAgeMinutes * MsPerMinute

\* what one tick unlinks: the listed files that are older than the limit,
\* except those for which statSync or unlinkSync throws (caught per file)
SweepDeletes(listing, mtimes, nowMs, failing) ==
  { f \in listing : OlderThanLimit(nowMs, mtimes[f]) /\ f \notin failing }

\* the job whose lp command has not returned, and the job queued behind it
ActiveJob ==
  [ job_id |-> << "j", "1" >>, filename |-> << "a", ".", "p", "d", "f" >>,
    pages |-> MaxPages ]
QueuedJob ==
  [ job_id |-> << "j", "3" >>, filename |-> << "c", ".", "p", "n", "g" >>,
    pages |-> MaxPages ]

\* processJob for ActiveJob, awaiting printDocument
ActiveRun ==
  StartPrint([ NewRun(ActiveJob.job_id, ActiveJob) EXCEPT
                 !.stage = "verifying", !.saved = TRUE, !.fileType = "pdf",
                 !.events = << EvReceived(ActiveJob.job_id) >>,
                 !.counted = MaxPages ],
             TRUE, ConfiguredPrinter)

\* the names the sweep may find: the working file of the active job, the
\* file a failed earlier pass of the queued job left behind, a stray file
SweepPaths ==
  { OriginalPath(ActiveJob.job_id, ActiveJob.filename),
    OriginalPath(QueuedJob.job_id, QueuedJob.filename),
    << "x" >> }

\* the first instant at which a file can be older than the limit
SweepStart == MaxAgeMinutes * MsPerMinute + 1

\* the agent when the sweep is first followed: no job, or ActiveJob in the
\* print stage with QueuedJob behind it; any of the names on disk, modified
\* just under, exactly, or just over the limit ago
InitSweep ==
  /\ InitClassifyIdle
  /\ InitUnitIdle
  /\ InitResetIdle
  /\ InitLifeIdle
  /\ printerName = ConfiguredPrinter
  /\ detecting = 0
  /\ conversionsToday = 0
  /\ inflight = 0
  /\ call = NULL
  /\ timers = <<>>
  /\ now = SweepStart
  /\ sweepLog = <<>>
  /\ files \in SUBSET SweepPaths
  /\ mtimeMs \in [ files -> 0..MaxElapsed ]
  /\ \/ /\ connected = FALSE
        /\ registered = <<>>
        /\ lastPollTime = NoTime
        /\ currentJob = NULL
        /\ pendingJobs = <<>>
        /\ pollCount = 0
        /\ jobsFetchedToday = 0
        /\ runs = <<>>
     \/ /\ connected = TRUE
        /\ registered = << Register(ConfiguredPrinter) >>
        /\ lastPollTime = 0
        /\ currentJob = ActiveJob.job_id
        /\ pendingJobs = << [ key |-> ActiveJob.job_id, job |-> ActiveJob ],
                            [ key |-> QueuedJob.job_id, job |-> QueuedJob ] >>
        /\ pollCount = 1
        /\ jobsFetchedToday = 2
        /\ runs = << ActiveRun >>
        /\ ActiveRun.finalPdfPath \in files

\* the clock advances by one millisecond
Elapse ==
  /\ now < SweepStart + MaxElapsed
  /\ now' = now + 1
  /\ UNCHANGED << jobVars, classifyVars, unitVars, resetVars, lifeVars, mtimeMs, sweepLog >>

\* the setInterval callback of startCleanup: readdirSync, then for each file
\* statSync and, when it is older than the limit, unlinkSync, inside a
\* try / catch of its own
SweepTick ==
  /\ Idle
  /\ Len(sweepLog) < MaxSweeps
  /\ \E failing \in SUBSET files :
       LET deleted == SweepDeletes(files, mtimeMs, now, failing) IN
       /\ files' = files \ deleted
       /\ mtimeMs' = [ f \in files \ deleted |-> mtimeMs[f] ]
       /\ sweepLog' = Append(sweepLog, [ listing |-> files, failed |-> failing,
                                         deleted |-> deleted ])
  /\ UNCHANGED << socketVars, currentJob, pendingJobs, counters, inflight,
                  lastPollTime, call, runs, timers, classifyVars, unitVars,
                  resetVars, lifeVars, now >>

NextSweep ==
  \/ SweepTick
  \/ Elapse

SpecSweep == InitSweep /\ [][NextSweep]_vars

\* --------------------------------------------------------- daily reset
MsPerHour == 60 * MsPerMinute
MsPerDay == 24 * MsPerHour

\* Date.prototype.getHours and getMinutes of the local time t, in
\* milliseconds since a local midnight
getHours(t) == (t \div MsPerHour) % 24
getMinutes(t) == (t \div MsPerMinute) % 60

\* variant: only the minute is looked at
IsResetTimeAnyHour(t) == getMinutes(t) = 0

\* now.getHours() === 0 && now.getMinutes() === 0
IsResetTime(t) == getHours(t) = 0 /\ getMinutes(t) = 0

\* local times at which the first tick of the reset interval may fire:
\* 23:59:00, 23:59:30, 00:00:00 and 00:00:30 around a midnight, 00:59:30,
\* 11:59:30 and 23:00:00
ResetStarts ==
  { 23 * MsPerHour + 59 * MsPerMinute,
    23 * MsPerHour + 59 * MsPerMinute + 30000,
    MsPerDay,
    MsPerDay + 30000,
    59 * MsPerMinute + 30000,
    11 * MsPerHour + 59 * MsPerMinute + 30000,
    23 * MsPerHour }

\* the agent at the first tick: any counters, idle or with a job in the
\* pipeline and another one queued
InitReset ==
  /\ InitClassifyIdle
  /\ InitUnitIdle
  /\ InitResetIdle
  /\ InitLifeIdle
  /\ printerName = ConfiguredPrinter
  /\ detecting = 0
  /\ inflight = 0
  /\ call = NULL
  /\ timers = <<>>
  /\ mtimeMs = <<>>
  /\ sweepLog = <<>>
  /\ now \in ResetStarts
  /\ pollCount \in 0..MaxPolls
  /\ jobsFetchedToday \in 0..MaxJobs
  /\ conversionsToday \in 0..MaxJobs
  /\ \/ /\ connected = FALSE
        /\ registered = <<>>
        /\ lastPollTime = NoTime
        /\ currentJob = NULL
        /\ pendingJobs = <<>>
        /\ runs = <<>>
        /\ files = {}
     \/ /\ connected = TRUE
        /\ registered = << Register(ConfiguredPrinter) >>
        /\ lastPollTime = 0
        /\ currentJob = ActiveJob.job_id
        /\ pendingJobs = << [ key |-> ActiveJob.job_id, job |-> ActiveJob ],
                            [ key |-> QueuedJob.job_id, job |-> QueuedJob ] >>
        /\ runs = << ActiveRun >>
        /\ files = { ActiveRun.finalPdfPath }

\* the callback of the reset interval
DailyResetTick ==
  /\ Len(dailyTicks) < MaxDailyTicks
  /\ dailyTicks # <<>> => dailyTicks[Len(dailyTicks)].at # now
  /\ dailyTicks' = Append(dailyTicks, [ at |-> now, reset |-> IsResetTime(now),
                                        before |-> counters ])
  /\ IF IsResetTime(now)
     THEN /\ jobsFetchedToday' = 0
          /\ conversionsToday' = 0
          /\ pollCount' = 0
     ELSE UNCHANGED counters
  /\ UNCHANGED << socketVars, currentJob, pendingJobs, inflight, lastPollTime,
                  call, runs, files, timers, classifyVars, unitVars,
                  lifeVars, sweepVars >>

\* the 60000 ms of the interval pass
MinutePasses ==
  /\ dailyTicks # <<>>
  /\ dailyTicks[Len(dailyTicks)].at = now
  /\ Len(dailyTicks) < MaxDailyTicks
  /\ now' = now + MsPerMinute
  /\ UNCHANGED << jobVars, classifyVars, unitVars, resetVars, lifeVars, mtimeMs,
                  sweepLog >>

NextReset == DailyResetTick \/ MinutePasses

SpecReset == InitReset /\ [][NextReset]_vars

\* ------------------------------------------- the functions on their own
Pending == output.settled = "pending"

\* errors.js: class ConversionError (name, code, fileType)
ConversionError(message, fileType) ==
  [ name |-> "ConversionError", code |-> "CONVERSION_ERROR",
    message |-> message, fileType |-> fileType ]

Resolved(value) == [ settled |-> "resolved", value |-> value ]
Rejected(error) == [ settled |-> "rejected", error |-> error ]

\* working paths handed to convertDocumentToPDF: lower and upper case
\* extension, two dots, no extension
DocumentInputs ==
  { <<"b",".","d","o","c","x">>, <<"B",".","D","O","C">>,
    <<"b",".","v","2",".","o","d","t">>, <<"b">> }

\* utils.convertDocumentToPDF(inputPath) from the call to the settling of its
\* promise
ConvertDocument ==
  /\ Pending
  /\ input.fn = "convertDocumentToPDF"
  /\ LET res == convertDocumentToPDF(input.inputPath, input.exit # "ok",
                                      input.fs) IN
     output' = IF res.ok THEN Resolved(res.path)
               ELSE Rejected(ConversionError(res.msg, "document"))
  /\ UNCHANGED << jobVars, classifyVars, resetVars, lifeVars, sweepVars, input >>

\* working paths handed to convertImageToPDF: lower and upper case
\* extension, an extension the converter does not take
ImageInputs ==
  { <<"c",".","p","n","g">>, <<"C",".","P","N","G">>,
    <<"c",".","j","p","e","g">>, <<"c",".","g","i","f">> }

\* utils.convertImageToPDF(inputPath) from the call to the settling of its
\* promise, with what it did on the way
ConvertImage ==
  /\ Pending
  /\ input.fn = "convertImageToPDF"
  /\ LET pre == ImagePrecheck(input.inputPath, input.fs)
         res == convertImageToPDF(input.inputPath, input.env, input.fs)
     IN
     output' =
       IF pre # <<>>
       THEN Rejected(ConversionError(pre, "image"))
              @@ [ tried |-> <<>>, tiers |-> <<>>, settles |-> 1,
                   files |-> input.fs ]
       ELSE (IF res.ok THEN Resolved(res.path)
             ELSE Rejected(ConversionError(res.msg, "image")))
              @@ [ tried |-> res.tried, tiers |-> res.tiers,
                   settles |-> Len(res.settles), files |-> res.files ]
  /\ UNCHANGED << jobVars, classifyVars, resetVars, lifeVars, sweepVars, input >>

\* -------------------------------------------------------- detectPrinter
\* errors.js: class PrinterError (name, code, printerName)
PrinterError(message, pn) ==
  [ name |-> "PrinterError", code |-> "PRINTER_ERROR", message |-> message,
    printerName |-> pn ]

MsgNoPrintersAvailable == << "No", "printers", "available" >>
MsgNoPrintersFound == << "No", "printers", "found" >>

\* A line of lpstat output is a sequence of pieces: words, " " and ":".
\* line.startsWith(prefix)
startsWith(line, prefix) ==
  Len(line) >= Len(prefix) /\ SubSeq(line, 1, Len(prefix)) = prefix

\* line.split(':')[1]: the pieces between the first colon and the next
SplitSecond(line) ==
  LET colons == { i \in 1..Len(line) : line[i] = ":" }
      first == CHOOSE i \in colons : \A k \in colons : i <= k
      later == { i \in colons : i > first }
      stop == IF later = {} THEN Len(line) + 1
              ELSE CHOOSE i \in later : \A k \in later : i <= k
  IN SubSeq(line, first + 1, stop - 1)

\* String.prototype.trim on pieces
trim(ps) ==
  LET solid == { i \in 1..Len(ps) : ps[i] # " " } IN
  IF solid = {} THEN <<>>
  ELSE SubSeq(ps, CHOOSE i \in solid : \A k \in solid : i <= k,
                  CHOOSE i \in solid : \A k \in solid : i >= k)

\* the pieces put together again as one string
RECURSIVE Join(_)
Join(ps) == IF ps = <<>> THEN "" ELSE Head(ps) \o Join(Tail(ps))

\* line.match(/printer\s+(\S+)/): the first place where "printer" is
\* followed by white space and then by something else; match[1], or
\* NoPrinter when there is no match
MatchPrinter(line) ==
  LET Hit(i) == /\ line[i] = "printer"
                /\ i + 1 <= Len(line) /\ line[i+1] = " "
                /\ \E k \in (i+2)..Len(line) : line[k] # " "
      hits == { i \in 1..Len(line) : Hit(i) }
  IN
  IF hits = {} THEN NoPrinter
  ELSE LET i == CHOOSE h \in hits : \A k \in hits : h <= k
           from == CHOOSE k \in (i+2)..Len(line) :
                     line[k] # " " /\ \A m \in (i+2)..(k-1) : line[m] = " "
           spaces == { k \in from..Len(line) : line[k] = " " }
           to == IF spaces = {} THEN Len(line)
                 ELSE (CHOOSE k \in spaces : \A m \in spaces : k <= m) - 1
       IN Join(SubSeq(line, from, to))

DefaultPrefix == << "system", " ", "default", " ", "destination", ":" >>
PrinterPrefix == << "printer", " " >>

\* lines.forEach(...): defaultPrinter and availablePrinters after the lines
RECURSIVE ScanLines(_, _)
ScanLines(lines, acc) ==
  IF lines = <<>> THEN acc
  ELSE LET line == Head(lines) IN
       ScanLines(Tail(lines),
         IF startsWith(line, DefaultPrefix)
         THEN [ acc EXCEPT !.defaultPrinter = Join(trim(SplitSecond(line))) ]
         ELSE IF startsWith(line, PrinterPrefix)
         THEN IF MatchPrinter(line) # NoPrinter
              THEN [ acc EXCEPT !.availablePrinters =
                                   Append(@, MatchPrinter(line)) ]
              ELSE acc
         ELSE acc)

\* variant: the first enumerated printer is preferred to the default
PickFirstAvailable(scan) ==
  IF scan.availablePrinters # <<>>
  THEN Resolved(scan.availablePrinters[1])
  ELSE IF scan.defaultPrinter \notin { NoPrinter, "" }
  THEN Resolved(scan.defaultPrinter)
  ELSE Rejected(PrinterError(MsgNoPrintersFound, NoPrinter))

\* the end of the exec callback: default, else first available, else reject
Pick(scan) ==
  IF scan.defaultPrinter \notin { NoPrinter, "" }
  THEN Resolved(scan.defaultPrinter)
  ELSE IF scan.availablePrinters # <<>>
  THEN Resolved(scan.availablePrinters[1])
  ELSE Rejected(PrinterError(MsgNoPrintersFound, NoPrinter))

\* printer.detectPrinter(printerName): how the promise settles and whether
\* lpstat was run, given the error and the stdout lines of `lpstat -p -d`
detectPrinter(pn, error, stdout) ==
  IF pn # "auto" THEN Resolved(pn) @@ [ queried |-> FALSE ]
  ELSE IF error
  THEN Rejected(PrinterError(MsgNoPrintersAvailable, NoPrinter))
         @@ [ queried |-> TRUE ]
  ELSE Pick(ScanLines(stdout, [ defaultPrinter |-> NoPrinter,
                                availablePrinters |-> <<>> ]))
         @@ [ queried |-> TRUE ]

\* lines `lpstat -p -d` prints
DefaultLine(pn) == DefaultPrefix \o << " ", pn >>
NoDefaultLine == << "no", " ", "system", " ", "default", " ", "destination" >>
PrinterLine(pn) == PrinterPrefix \o << pn, " ", "is", " ", "idle", "." >>

SpoolerPrinters == { "HP", "Canon" }

LpstatLines ==
  { DefaultLine(pn) : pn \in SpoolerPrinters }
    \cup { PrinterLine(pn) : pn \in SpoolerPrinters }
    \cup { NoDefaultLine, <<>> }

\* stdout.split('\n'): up to MaxLines lines, at most one of them about the
\* default destination
LpstatOutputs ==
  { out \in UNION { [ 1..n -> LpstatLines ] : n \in 0..MaxLines } :
      Cardinality({ i \in 1..Len(out) :
                      \/ startsWith(out[i], DefaultPrefix)
                      \/ out[i] = NoDefaultLine }) <= 1 }

\* printer.detectPrinter from the call to the settling of its promise
DetectPrinter ==
  /\ Pending
  /\ input.fn = "detectPrinter"
  /\ output' = detectPrinter(input.printerName, input.error, input.stdout)
  /\ UNCHANGED << jobVars, classifyVars, resetVars, lifeVars, sweepVars, input >>

\* --------------------------------------------------- checkPrinterStatus
\* the phrases checkPrinterStatus looks for, rule by rule
MediaEmptyPhrases == { <<"o","u","t"," ","o","f"," ","p","a","p","e","r">>, <<"m","e","d","i","a"," ","e","m","p","t","y">>,
                       <<"n","o"," ","m","e","d","i","a">> }
TonerEmptyPhrases == { <<"o","u","t"," ","o","f"," ","i","n","k">>, <<"t","o","n","e","r"," ","e","m","p","t","y">>,
                       <<"i","n","k"," ","e","m","p","t","y">> }
CoverOpenPhrases == { <<"c","o","v","e","r"," ","o","p","e","n">>, <<"d","o","o","r"," ","o","p","e","n">> }
Stopped == <<"s","t","o","p","p","e","d">>
OfflinePhrases == { <<"n","o","t"," ","c","o","n","n","e","c","t","e","d">>, <<"o","f","f","l","i","n","e">> }
IdleWord == <<"i","d","l","e">>
HealthyPhrases == { IdleWord, <<"p","r","o","c","e","s","s","i","n","g">> }

\* output.includes(phrase)
includes(text, phrase) ==
  \E i \in 1..(Len(text) - Len(phrase) + 1) : MatchAt(text, phrase, i)

\* output.includes(a) || output.includes(b) || ...
includesAny(text, phrases) == \E ph \in phrases : includes(text, ph)

NoDetail == "null"

\* variant: the healthy phrases are looked for before the fault phrases
ClassifyStatusHealthyFirst(text) ==
  IF includesAny(text, HealthyPhrases)
  THEN [ status |-> "healthy", detail |-> NoDetail ]
  ELSE IF includesAny(text, MediaEmptyPhrases)
  THEN [ status |-> "error", detail |-> "media-empty" ]
  ELSE IF includesAny(text, TonerEmptyPhrases)
  THEN [ status |-> "error", detail |-> "toner-empty" ]
  ELSE IF includesAny(text, CoverOpenPhrases)
  THEN [ status |-> "error", detail |-> "cover-open" ]
  ELSE IF includes(text, Stopped)
  THEN [ status |-> "error", detail |-> "stopped" ]
  ELSE IF includesAny(text, OfflinePhrases)
  THEN [ status |-> "error", detail |-> "offline" ]
  ELSE [ status |-> "unknown", detail |-> "ipp_unsupported" ]

\* the chain of ifs on the lower-cased output
ClassifyStatus(text) ==
  IF includesAny(text, MediaEmptyPhrases)
  THEN [ status |-> "error", detail |-> "media-empty" ]
  ELSE IF includesAny(text, TonerEmptyPhrases)
  THEN [ status |-> "error", detail |-> "toner-empty" ]
  ELSE IF includesAny(text, CoverOpenPhrases)
  THEN [ status |-> "error", detail |-> "cover-open" ]
  ELSE IF includes(text, Stopped) /\ ~includes(text, IdleWord)
  THEN [ status |-> "error", detail |-> "stopped" ]
  ELSE IF includesAny(text, OfflinePhrases)
  THEN [ status |-> "error", detail |-> "offline" ]
  ELSE IF includesAny(text, HealthyPhrases)
  THEN [ status |-> "healthy", detail |-> NoDetail ]
  ELSE [ status |-> "unknown", detail |-> "ipp_unsupported" ]

\* variant: lpstat is run whatever the printer name is
checkPrinterStatusAlwaysQueries(pn, error, stdout) ==
  IF error /\ stdout = <<>>
  THEN Resolved([ status |-> "unknown", detail |-> "cups_unavailable" ])
         @@ [ queried |-> TRUE ]
  ELSE Resolved(ClassifyStatus(toLowerCase(stdout))) @@ [ queried |-> TRUE ]

\* printer.checkPrinterStatus(printerName): how the promise settles and
\* whether lpstat was run, given the error and the stdout of
\* `lpstat -p <name> 2>&1`
checkPrinterStatus(pn, error, stdout) ==
  IF pn \in { NoPrinter, "" }
  THEN Resolved([ status |-> "unknown", detail |-> "no_printer_configured" ])
         @@ [ queried |-> FALSE ]
  ELSE IF error /\ stdout = <<>>
  THEN Resolved([ status |-> "unknown", detail |-> "cups_unavailable" ])
         @@ [ queried |-> TRUE ]
  ELSE Resolved(ClassifyStatus(toLowerCase(stdout))) @@ [ queried |-> TRUE ]

\* what lpstat may say about a printer: the phrases, some of them with
\* capitals, and words checkPrinterStatus does not know
StatusPhrases ==
  MediaEmptyPhrases \cup TonerEmptyPhrases \cup CoverOpenPhrases
    \cup OfflinePhrases \cup HealthyPhrases
    \cup { Stopped, <<"I","d","l","e">>, <<"S","T","O","P","P","E","D">>,
           <<"C","o","v","e","r"," ","O","p","e","n">>,
           <<"d","i","s","a","b","l","e","d">> }

\* the phrases put together as one text, a blank between two of them
RECURSIVE StatusText(_)
StatusText(phrases) ==
  IF phrases = <<>> THEN <<>>
  ELSE IF Len(phrases) = 1 THEN phrases[1]
  ELSE phrases[1] \o << " " >> \o StatusText(Tail(phrases))

\* printer.checkPrinterStatus from the call to the settling of its promise
CheckPrinterStatus ==
  /\ Pending
  /\ input.fn = "checkPrinterStatus"
  /\ output' = checkPrinterStatus(input.printerName, input.error,
                                   StatusText(input.phrases))
  /\ UNCHANGED << jobVars, classifyVars, resetVars, lifeVars, sweepVars, input >>

\* one of the four functions is called on its own: a working path, the
\* way the libreoffice process ends (exit code 0, another exit code, killed
\* at CONVERSION_TIMEOUT) and the files then on disk; a working path, the
\* tools installed and what they do, and the files on disk; the configured
\* printer name and what `lpstat -p -d` says; the printer name held and what
\* `lpstat -p <name>` says
InitUnits ==
  /\ InitState
  /\ InitClassifyIdle
  /\ InitResetIdle
  /\ InitLifeIdle
  /\ InitSweepIdle
  /\ output = [ settled |-> "pending" ]
  /\ input \in
       { [ fn |-> "convertDocumentToPDF", inputPath |-> q, exit |-> e,
           fs |-> fs ] :
         q \in DocumentInputs, e \in { "ok", "nonzero", "timeout" },
         fs \in UNION { SUBSET { d, DocumentOutputPath(d), d \o DotPdf } :
                         d \in DocumentInputs } }
       \cup
       UNION { { [ fn |-> "convertImageToPDF", inputPath |-> q, env |-> e,
                   fs |-> fs ] :
                 e \in ImageEnvs, fs \in SUBSET { q, ImageOutputPath(q) } } :
               q \in ImageInputs }
       \cup
       { [ fn |-> "detectPrinter", printerName |-> pn, error |-> e,
           stdout |-> out ] :
         pn \in { "auto", "HP", "Ghost" }, e \in BOOLEAN,
         out \in LpstatOutputs }
       \cup
       { [ fn |-> "checkPrinterStatus", printerName |-> pn, error |-> e,
           phrases |-> ph ] :
         pn \in { NoPrinter, "", "HP" }, e \in BOOLEAN,
         ph \in UNION { [ 1..n -> StatusPhrases ] : n \in 0..MaxPhrases } }

NextUnits ==
  \/ ConvertDocument
  \/ ConvertImage
  \/ DetectPrinter
  \/ CheckPrinterStatus

SpecUnits == InitUnits /\ [][NextUnits]_vars

\* ------------------------------------------- connection timers and shutdown
\* the agent before its first 'connect', or connected with one poller
\* running, processJob awaiting printDocument for ActiveJob and the queue
\* holding that job alone or QueuedJob behind it
InitLife ==
  /\ InitClassifyIdle
  /\ InitUnitIdle
  /\ InitResetIdle
  /\ InitSweepIdle
  /\ detecting = 0
  /\ inflight = 0
  /\ call = NULL
  /\ timers = <<>>
  /\ conversionsToday = 0
  /\ hbPending = 0
  /\ heartbeats = <<>>
  /\ shutdownLog = <<>>
  /\ exited = FALSE
  /\ \/ /\ connected = FALSE
        /\ printerName = NoPrinter
        /\ registered = <<>>
        /\ pollers = 0
        /\ pollCount = 0
        /\ jobsFetchedToday = 0
        /\ lastPollTime = NoTime
        /\ currentJob = NULL
        /\ pendingJobs = <<>>
        /\ runs = <<>>
        /\ files = {}
     \/ /\ connected = TRUE
        /\ printerName = ConfiguredPrinter
        /\ registered = << Register(ConfiguredPrinter) >>
        /\ pollers = 1
        /\ pollCount = 1
        /\ lastPollTime = 0
        /\ currentJob = ActiveJob.job_id
        /\ pendingJobs \in
             { << [ key |-> ActiveJob.job_id, job |-> ActiveJob ] >>,
               << [ key |-> ActiveJob.job_id, job |-> ActiveJob ],
                  [ key |-> QueuedJob.job_id, job |-> QueuedJob ] >> }
        /\ jobsFetchedToday = Len(pendingJobs)
        /\ runs = << ActiveRun >>
        /\ files = { ActiveRun.finalPdfPath }

\* socket 'connect' with PRINTER_NAME set: the listener of socket-client.js
\* registers, the listener of index.js calls startPolling, which starts an
\* interval and returns its id to a caller that drops it
SocketConnect ==
  /\ ~exited
  /\ Idle
  /\ ~connected
  /\ pollers < MaxPollers
  /\ connected' = TRUE
  /\ printerName' = ConfiguredPrinter
  /\ registered' = << Register(printerName') >>
  /\ pollers' = pollers + 1
  /\ UNCHANGED << detecting, currentJob, pendingJobs, counters, inflight,
                  lastPollTime, call, runs, files, timers, hbPending,
                  heartbeats, shutdownLog, exited, classifyVars, unitVars,
                  resetVars, sweepVars >>

\* socket.emit('heartbeat', payload) as the callback does it, noted with
\* socket.connected as it is at that instant
EmitHeartbeat(sent, printerStatusResult) ==
  Append(sent,
    [ connected |-> connected,
      event |->
        [ type |-> "heartbeat",
          printer_status |->
            IF printerName = NoPrinter THEN "no_printer" ELSE "ready",
          printer_ipp_status |-> printerStatusResult.status,
          printer_ipp_detail |-> printerStatusResult.detail,
          current_job |-> currentJob,
          pending_jobs |-> Len(pendingJobs),
          poll_count |-> pollCount,
          jobs_fetched_today |-> jobsFetchedToday,
          conversions_today |-> conversionsToday,
          last_poll |-> lastPollTime ] ])

\* the heartbeat interval fires: the callback up to its await; with no
\* printer name checkPrinterStatus has resolved already and the callback
\* goes on to the emit before any other event is handled
HeartbeatTick ==
  /\ ~exited
  /\ Idle
  /\ connected
  /\ Len(heartbeats) + hbPending < MaxHeartbeats
  /\ IF printerName = NoPrinter
     THEN /\ heartbeats' =
               EmitHeartbeat(heartbeats,
                             checkPrinterStatus(printerName, FALSE, <<>>).value)
          /\ UNCHANGED hbPending
     ELSE /\ hbPending' = hbPending + 1
          /\ UNCHANGED heartbeats
  /\ UNCHANGED << jobVars, classifyVars, unitVars, resetVars, sweepVars,
                  pollers, shutdownLog, exited >>

\* lpstat answered: the rest of the heartbeat callback
HeartbeatDone ==
  /\ ~exited
  /\ Idle
  /\ hbPending > 0
  /\ hbPending' = hbPending - 1
  /\ \E error \in BOOLEAN, stdout \in { <<>>, IdleWord, Stopped } :
       heartbeats' =
         EmitHeartbeat(heartbeats,
                       checkPrinterStatus(printerName, error, stdout).value)
  /\ UNCHANGED << jobVars, classifyVars, unitVars, resetVars, sweepVars,
                  pollers, shutdownLog, exited >>

\* variant: the handler warns only of jobs that wait behind the current one
ShutdownWarningsWaitingOnly(cur, m) ==
  IF Len(m) > 1 THEN << "jobs in queue" >> ELSE <<>>

\* the warnings of the SIGINT handler after its first line
ShutdownWarnings(cur, m) ==
  (IF cur # NULL THEN << "job was in progress" >> ELSE <<>>)
    \o (IF Len(m) > 0 THEN << "jobs in queue" >> ELSE <<>>)

\* the SIGINT handler
Sigint ==
  /\ ~exited
  /\ Idle
  /\ shutdownLog' = << "Shutting down agent" >>
                      \o ShutdownWarnings(currentJob, pendingJobs)
                      \o << "socket.disconnect", "process.exit" >>
  /\ connected' = FALSE
  /\ exited' = TRUE
  /\ UNCHANGED << printerName, detecting, registered, currentJob, pendingJobs,
                  counters, inflight, lastPollTime, call, runs, files, timers,
                  pollers, hbPending, heartbeats, classifyVars, unitVars,
                  resetVars, sweepVars >>

\* the SIGTERM handler
Sigterm ==
  /\ ~exited
  /\ Idle
  /\ shutdownLog' = << "Received SIGTERM", "socket.disconnect", "process.exit" >>
  /\ connected' = FALSE
  /\ exited' = TRUE
  /\ UNCHANGED << printerName, detecting, registered, currentJob, pendingJobs,
                  counters, inflight, lastPollTime, call, runs, files, timers,
                  pollers, hbPending, heartbeats, classifyVars, unitVars,
                  resetVars, sweepVars >>

NextLife ==
  \/ SocketConnect
  \/ Disconnect
  \/ HeartbeatTick
  \/ HeartbeatDone
  \/ Sigint
  \/ Sigterm

SpecLife == InitLife /\ [][NextLife]_vars

\* ------------------------------------------------------------- properties
Range(q) == { q[i] : i \in 1..Len(q) }

CompleteEvents(r) ==
  SelectSeq(r.events, LAMBDA e : e.type = "print_complete")

\* activation r reaches its terminal state in the step at hand
TerminatedInStep(r) ==
  \/ /\ call # NULL
     /\ MapHas(pendingJobs, call)
     /\ runs' # <<>>
     /\ r = runs'[Len(runs')]
     /\ Terminal(r)
  \/ /\ call = NULL
     /\ Len(runs') = Len(runs)
     /\ \E i \in 1..Len(runs) :
          ~Terminal(runs[i]) /\ r = runs'[i] /\ Terminal(r)

\* C1: at most one activation of processJob is between its entry and its
\* terminal state, and processJob is never called for another job while one
\* is mid-pipeline
C1_MutualExclusion ==
  /\ Cardinality({ i \in 1..Len(runs) : ~Terminal(runs[i]) }) <= 1
  /\ call # NULL => \A i \in 1..Len(runs) : Terminal(runs[i])
  /\ \A i \in 1..Len(runs) : ~Terminal(runs[i]) => currentJob = runs[i].jobId

\* a second job is queued while the first is being printed
C1_Witness ==
  /\ Len(pendingJobs) >= 2
  /\ \E i \in 1..Len(runs) :
       runs[i].stage = "printing" /\ runs[i].jobId = pendingJobs[1].key

\* C2: the pending queue never reorders, new keys go behind the old ones,
\* only the oldest key leaves, and the job processJob is called with is the
\* oldest key
C2_Fifo ==
  [][ /\ \A a \in 1..Len(pendingJobs), b \in 1..Len(pendingJobs) :
          (a < b /\ MapHas(pendingJobs', pendingJobs[a].key)
                 /\ MapHas(pendingJobs', pendingJobs[b].key))
          => MapIndex(pendingJobs', pendingJobs[a].key)
               < MapIndex(pendingJobs', pendingJobs[b].key)
      /\ \A n \in 1..Len(pendingJobs') :
          ~MapHas(pendingJobs, pendingJobs'[n].key)
          => \A o \in 1..Len(pendingJobs') :
               MapHas(pendingJobs, pendingJobs'[o].key) => o < n
      /\ \A a \in 1..Len(pendingJobs) :
          ~MapHas(pendingJobs', pendingJobs[a].key) => a = 1
      /\ call' # NULL => (pendingJobs' # <<>> /\ call' = pendingJobs'[1].key)
      /\ (call # NULL /\ runs' # <<>> /\ MapHas(pendingJobs, call))
          => runs'[Len(runs')].jobId = pendingJobs[1].key
    ]_vars

\* processJob is being called while two jobs are pending
C2_Witness ==
  /\ call # NULL
  /\ Len(pendingJobs) >= 2
  /\ call = pendingJobs[1].key

\* C3: a run that fails at any stage ends in the failed state with the
\* error attached; in the same step currentJob is cleared, the job leaves
\* pendingJobs and processJob is called with the next pending job
C3_ErrorContained ==
  [][ \A r \in Range(runs') :
        (TerminatedInStep(r) /\ r.stage = "failed")
        => /\ r.error # <<>>
           /\ currentJob' = NULL
           /\ ~MapHas(pendingJobs', r.jobId)
           /\ pendingJobs' # <<>> => call' = pendingJobs'[1].key
    ]_vars

\* a job has failed and the next pending job is being started
C3_Witness ==
  /\ call # NULL
  /\ currentJob = NULL
  /\ runs # <<>>
  /\ runs[Len(runs)].stage = "failed"
  /\ runs[Len(runs)].jobId # call

\* C4 as stated: every run that reached a terminal state has emitted
\* exactly one print_complete
C4_ExactlyOnce ==
  \A r \in Range(runs) : Terminal(r) => Len(CompleteEvents(r)) = 1

\* C4 amended: a run that reaches a terminal state emits exactly one
\* print_complete when the socket is connected at that moment and none when
\* it is not; never two
C4_OncePerConnectedRun ==
  [][ \A r \in Range(runs') :
        TerminatedInStep(r)
        => /\ Len(CompleteEvents(r)) = (IF connected THEN 1 ELSE 0)
           /\ \A e \in Range(CompleteEvents(r)) :
                /\ e.job_id = r.jobId
                /\ e.success = (r.stage = "completed")
    ]_vars

\* a run has ended connected throughout: job_received, print_started and
\* its single print_complete
C4_Witness ==
  \E r \in Range(runs) :
    /\ Terminal(r)
    /\ Len(CompleteEvents(r)) = 1
    /\ Len(r.events) = 3

\* C5 as stated: whenever a run that saved its working file reaches a
\* terminal state, completed or failed, the cleanup of its working file and
\* of its converted file is scheduled
C5_CleanupOnEveryTerminal ==
  [][ \A r \in Range(runs') :
        (TerminatedInStep(r) /\ r.saved)
        => /\ Len(timers') = Len(timers) + 1
           /\ timers'[Len(timers')] = CleanupTimer(r)
    ]_vars

\* C6: the cleanup timer is scheduled only by a run that completes, after
\* its print_complete and without deleting anything in that step; when the
\* timer fires it deletes the working file and the converted file of that
\* run and nothing else
C6_CleanupDelayedExact ==
  [][ /\ Len(timers') > Len(timers)
          => \E r \in Range(runs') :
               /\ TerminatedInStep(r)
               /\ r.stage = "completed"
               /\ timers' = Append(timers, CleanupTimer(r))
               /\ connected => Len(CompleteEvents(r)) = 1
      /\ \A r \in Range(runs') :
            (TerminatedInStep(r) /\ r.stage = "completed")
            => /\ files' = files
               /\ timers' = Append(timers, CleanupTimer(r))
      /\ (timers # <<>> /\ timers' = Tail(timers))
          => files' = files \ { Head(timers).finalPdfPath,
                                Head(timers).originalPath }
    ]_vars

\* the cleanup of a converted job has fired: both of its files are gone and
\* another file is still there
C6_Witness ==
  /\ timers = <<>>
  /\ files # {}
  /\ \E r \in Range(runs) :
       /\ r.stage = "completed"
       /\ r.finalPdfPath # r.originalPath
       /\ r.finalPdfPath \notin files
       /\ r.originalPath \notin files

\* C7 as stated: a job whose filename classifies as unknown ends failed, no
\* converter and no printDocument was invoked for it, and every
\* print_complete it emitted has success false and an error text that
\* contains "Unsupported"
C7_UnknownUnsupported ==
  \A r \in Range(runs) :
    getFileType(r.job.filename) = "unknown"
    => /\ r.stage = "failed"
       /\ r.convCalls = <<>>
       /\ r.printCalls = <<>>
       /\ \A e \in Range(CompleteEvents(r)) :
            ~e.success /\ Contains(e.error, "Unsupported")

\* C7 amended: as above, the error text containing "Unsupported" when the
\* payload was saved (an intake failure reports its own error)
C7_UnknownUnsupportedIfSaved ==
  \A r \in Range(runs) :
    getFileType(r.job.filename) = "unknown"
    => /\ r.stage = "failed"
       /\ r.convCalls = <<>>
       /\ r.printCalls = <<>>
       /\ \A e \in Range(CompleteEvents(r)) :
            ~e.success /\ (r.saved => Contains(e.error, "Unsupported"))

\* a saved job of unknown kind has reported its failure
C7_Witness ==
  \E r \in Range(runs) :
    /\ getFileType(r.job.filename) = "unknown"
    /\ r.saved
    /\ r.stage = "failed"
    /\ Len(CompleteEvents(r)) = 1
    /\ Contains(CompleteEvents(r)[1].error, "Unsupported")

\* C8: for a job whose filename classifies as pdf no converter is invoked
\* and the file handed to printDocument is the saved working file
C8_PdfNotConverted ==
  \A r \in Range(runs) :
    getFileType(r.job.filename) = "pdf"
    => /\ r.convCalls = <<>>
       /\ \A c \in Range(r.printCalls) : c.file = r.originalPath
       /\ r.stage \in { "printing", "completed" } => Len(r.printCalls) = 1

\* a pdf job has been submitted to the printer
C8_Witness ==
  \E r \in Range(runs) :
    /\ getFileType(r.job.filename) = "pdf"
    /\ r.stage = "completed"
    /\ r.printCalls # <<>>

\* C9 as stated: the verify step of a pdf job never ends the job; whatever
\* the parse does, the run goes on to print_started and submission with a
\* page count of at least 1
C9_VerifyNeverBlocks ==
  [][ \A i \in 1..Len(runs) :
        (runs[i].stage = "verifying" /\ Len(runs') = Len(runs)
           /\ runs'[i] # runs[i])
        => /\ runs'[i].stage = "printing"
           /\ runs'[i].counted >= 1
           /\ Len(runs'[i].printCalls) = 1
    ]_vars

\* C10: a run for which verifyPDF logged a page mismatch got a page count
\* back, was submitted to the printer, and can have failed only through the
\* submission
C10_MismatchNonFatal ==
  \A r \in Range(runs) :
    r.warned
    => /\ r.counted >= 1
       /\ r.job.pages # NoPages
       /\ r.counted # r.job.pages
       /\ Len(r.printCalls) = 1
       /\ r.stage = "failed" => r.error = MsgPrint

\* a pdf job with a wrong expected page count has been printed
C10_Witness ==
  \E r \in Range(runs) :
    /\ r.warned
    /\ r.counted # r.job.pages
    /\ r.stage = "completed"

HasEvent(r, type) == \E e \in Range(r.events) : e.type = type

\* the messages of the rejections of the two converters
ConverterMsgs ==
  { MsgLibreOffice, MsgNoOutput, MsgNoInput, MsgBadImageExt, MsgNoImageMagick,
    MsgImageFailed, MsgImageNoOutput }

\* C11: a converter is entered at most once per run; a run that leaves the
\* converting stage goes to printing or ends failed with the converter's
\* error; a run that ended with a converter's error is failed, has entered
\* the converter exactly once, has emitted no print_started and has never
\* called printDocument
C11_ConversionFailureTerminal ==
  [][ /\ \A r \in Range(runs') :
           /\ Len(r.convCalls) <= 1
           /\ r.error \in ConverterMsgs
              => /\ r.stage = "failed"
                 /\ r.fileType \in { "document", "image" }
                 /\ Len(r.convCalls) = 1
                 /\ r.printCalls = <<>>
                 /\ ~HasEvent(r, "print_started")
                 /\ ~MapHas(pendingJobs', r.jobId)
      /\ \A i \in 1..Len(runs) :
           (call = NULL /\ Len(runs') = Len(runs)
              /\ runs[i].stage = "converting" /\ runs'[i] # runs[i])
           => \/ runs'[i].stage = "printing"
              \/ /\ runs'[i].stage = "failed"
                 /\ runs'[i].error \in ConverterMsgs
    ]_vars

\* an image job has failed in its converter and has reported job_received
\* and print_complete
C11_Witness ==
  \E r \in Range(runs) :
    /\ r.error = MsgImageFailed
    /\ Len(r.convCalls) = 1
    /\ Len(r.events) = 2
    /\ ~CompleteEvents(r)[1].success

\* the run failed because the tool of its conversion is not installed: the
\* exec of libreoffice ends with an error (command not found), or neither
\* `which magick` nor `which convert` finds a tool
ToolUnavailable(r) ==
  /\ r.stage = "failed"
  /\ \/ r.fileType = "document" /\ r.error = MsgLibreOffice
     \/ r.fileType = "image" /\ r.error = MsgNoImageMagick

\* C12 as stated: every print_complete of a run that failed for want of its
\* conversion tool has success false and an error text that contains
\* "conversion"
C12_ToolMissingSaysConversion ==
  \A r \in Range(runs) :
    ToolUnavailable(r)
    => \A e \in Range(CompleteEvents(r)) :
         ~e.success /\ Contains(e.error, "conversion")

\* C12 amended: success is false in both cases; the error text contains
\* "conversion" for a document job, and for an image job it is the
\* "ImageMagick not found" text, which does not
C12_DocumentToolMissingSaysConversion ==
  \A r \in Range(runs) :
    ToolUnavailable(r)
    => \A e \in Range(CompleteEvents(r)) :
         /\ ~e.success
         /\ e.error = r.error
         /\ r.fileType = "document" => Contains(e.error, "conversion")
         /\ r.fileType = "image"
            => Contains(e.error, "ImageMagick") /\ ~Contains(e.error, "conversion")

\* a document job has reported that its converter could not be run
C12_Witness ==
  \E r \in Range(runs) :
    /\ ToolUnavailable(r)
    /\ r.fileType = "document"
    /\ Len(CompleteEvents(r)) = 1
    /\ Contains(CompleteEvents(r)[1].error, "conversion")

\* C13: a run that called printDocument ends completed exactly when the lp
\* command returned without error and failed, with the "Print command
\* failed" error and the spooler's detail, exactly when it returned an
\* error; its print_complete carries success true in the first case and
\* success false with that error in the second
C13_OutcomeFollowsSubmission ==
  \A r \in Range(runs) :
    r.printCalls # <<>>
    => /\ Len(r.printCalls) = 1
       /\ r.stage \in { "printing", "completed", "failed" }
       /\ r.stage = "printing" <=> r.printCalls[1].settled = "pending"
       /\ r.stage = "completed" <=> r.printCalls[1].settled = "resolved"
       /\ r.stage = "failed" <=> r.printCalls[1].settled = "rejected"
       /\ r.stage = "failed" => r.error = MsgPrint /\ Contains(r.error, Diag)
       /\ \A e \in Range(CompleteEvents(r)) :
            /\ e.success <=> r.printCalls[1].settled = "resolved"
            /\ ~e.success <=> r.printCalls[1].settled = "rejected"
            /\ ~e.success => e.error = MsgPrint

\* a job was rejected by lp and reported as failed with lp's detail
C13_Witness ==
  \E r \in Range(runs) :
    /\ r.printCalls # <<>>
    /\ r.printCalls[1].settled = "rejected"
    /\ Len(CompleteEvents(r)) = 1
    /\ ~CompleteEvents(r)[1].success
    /\ Contains(CompleteEvents(r)[1].error, Diag)

\* the place of an event in the life of a job
Rank(type) ==
  IF type = "job_received" THEN 1 ELSE IF type = "print_started" THEN 2 ELSE 3

\* C14: within one pass of a job through processJob the events carry its
\* job_id and come in the order job_received, print_started,
\* print_complete, each at most once; job_received is emitted in the step
\* that wrote the payload to the working path; print_started is emitted
\* only by a run that goes on to call printDocument; and a run that has
\* emitted print_complete, or has ended, emits nothing more
C14_EventOrder ==
  [][ /\ \A r \in Range(runs') :
           /\ \A a \in 1..Len(r.events), b \in 1..Len(r.events) :
                a < b => Rank(r.events[a].type) < Rank(r.events[b].type)
           /\ \A e \in Range(r.events) : e.job_id = r.jobId
           /\ HasEvent(r, "job_received") => r.saved
           /\ HasEvent(r, "print_started") => Len(r.printCalls) = 1
           /\ r.printCalls = <<>> => ~HasEvent(r, "print_started")
      /\ (call # NULL /\ MapHas(pendingJobs, call)
            /\ HasEvent(runs'[Len(runs')], "job_received"))
         => runs'[Len(runs')].originalPath \in files'
      /\ \A i \in 1..Len(runs) :
           (call = NULL /\ Len(runs') = Len(runs)
              /\ (Terminal(runs[i]) \/ HasEvent(runs[i], "print_complete")))
           => runs'[i].events = runs[i].events
    ]_vars

\* a document job has failed in its converter: job_received and
\* print_complete, no print_started; its working file is on disk
C14_Witness ==
  \E r \in Range(runs) :
    /\ r.fileType = "document"
    /\ r.stage = "failed"
    /\ Len(r.events) = 2
    /\ r.events[1].type = "job_received"
    /\ r.events[2].type = "print_complete"
    /\ r.originalPath \in files

\* C15: a run that reaches its terminal state while the socket is
\* disconnected emits no print_complete in that step, and in the same step
\* currentJob is cleared, the job leaves pendingJobs and processJob is
\* called with the next pending job; the record of a run that has ended
\* never changes afterwards, and a connect changes no run
C15_DroppedNotDeferred ==
  [][ /\ \A r \in Range(runs') :
           (TerminatedInStep(r) /\ ~connected)
           => /\ CompleteEvents(r) = <<>>
              /\ currentJob' = NULL
              /\ ~MapHas(pendingJobs', r.jobId)
              /\ pendingJobs' # <<>> => call' = pendingJobs'[1].key
      /\ \A r \in Range(runs') :
           (Terminal(r) /\ ~TerminatedInStep(r)) => r \in Range(runs)
      /\ (connected' /\ ~connected) => runs' = runs
    ]_vars

\* a job has ended while disconnected, the socket is connected again, and
\* the run holds no print_complete
C15_Witness ==
  /\ connected
  /\ currentJob = NULL
  /\ \E r \in Range(runs) :
       /\ Terminal(r)
       /\ HasEvent(r, "job_received")
       /\ CompleteEvents(r) = <<>>
       /\ ~MapHas(pendingJobs, r.jobId)

\* a poll response is handled in the step at hand while a job is
\* mid-pipeline
IntakeWhileBusy ==
  /\ jobsFetchedToday' # jobsFetchedToday
  /\ currentJob # NULL

\* the keys of a Map in insertion order
Keys(m) == [ i \in 1..Len(m) |-> m[i].key ]

C17_ClassifierTotal ==
  /\ [](fileKind = "none" => ENABLED Classify)
  /\ [][ LET ext == toLowerCase(extname(fileName)) IN
         /\ fileKind' \in { "pdf", "document", "image", "unknown" }
         /\ fileKind' = "pdf" <=> ext = << ".", "p", "d", "f" >>
         /\ fileKind' = "document"
            <=> ext \in { << ".", "d", "o", "c" >>, << ".", "d", "o", "c", "x" >>,
                          << ".", "r", "t", "f" >>, << ".", "o", "d", "t" >>,
                          << ".", "t", "x", "t" >>, << ".", "m", "d" >> }
         /\ fileKind' = "image"
            <=> ext \in { << ".", "p", "n", "g" >>, << ".", "j", "p", "g" >>,
                          << ".", "j", "p", "e", "g" >> }
         /\ UNCHANGED << jobVars, unitVars, resetVars, lifeVars, sweepVars, fileName >>
       ]_vars

\* a name with two dots and an upper-case extension was classified as a
\* document
C17_Witness ==
  /\ fileName = << "a", ".", "b", ".", "D", "O", "C", "X" >>
  /\ fileKind = "document"

\* C18 as stated: printDocument is never called with an unresolved printer
\* name
C18_PrinterResolvedBeforeSubmit ==
  \A r \in Range(runs) :
    \A c \in Range(r.printCalls) : c.printer # NoPrinter

\* C19: a sweep tick deletes every listed file that is older than 30
\* minutes and whose stat and unlink succeed, whether or not it is the file
\* of the active or of a queued job; it deletes no file of 30 minutes or
\* less; a file on which it fails stays, and the other files are treated
\* as if it had not failed; the tick changes nothing of the job handler
C19_SweepByAgeOnly ==
  [][ sweepLog' # sweepLog
      => LET tick == sweepLog'[Len(sweepLog')] IN
         /\ tick.listing = files
         /\ files' \subseteq files
         /\ \A f \in files :
              /\ (now - mtimeMs[f] > MaxAgeMinutes * MsPerMinute
                    /\ f \notin tick.failed)
                 => f \notin files'
              /\ now - mtimeMs[f] <= MaxAgeMinutes * MsPerMinute => f \in files'
              /\ f \in tick.failed => f \in files'
         /\ UNCHANGED << currentJob, pendingJobs, runs, timers >>
    ]_vars

\* a tick has deleted the working file of the job that is being printed,
\* has kept a file of exactly 30 minutes, and has kept an older file whose
\* unlink failed
C19_Witness ==
  /\ Len(sweepLog) = 1
  /\ now = SweepStart
  /\ currentJob # NULL
  /\ \E r \in Range(runs) : r.stage = "printing" /\ r.finalPdfPath \notin files
  /\ \E f \in files : now - mtimeMs[f] = MaxAgeMinutes * MsPerMinute
  /\ \E f \in files :
       /\ now - mtimeMs[f] > MaxAgeMinutes * MsPerMinute
       /\ f \in sweepLog[1].failed

\* C20 as stated: the file that the printable path of a run refers to is on
\* disk from the moment the payload is saved until the run ends
C20_ActiveFileExists ==
  \A r \in Range(runs) :
    (r.saved /\ ~Terminal(r)) => r.finalPdfPath \in files

\* the activation that ends in the step at hand threw before its working
\* file was written (Buffer.from or fs.writeFileSync)
IntakeFailedInStep(r) == TerminatedInStep(r) /\ ~r.saved

\* what an intake failure leaves behind, but for its print_complete: the run
\* is failed with the thrown error, has emitted no job_received, has called
\* no converter and no printDocument and has scheduled no cleanup; the job
\* leaves pendingJobs, the other entries stay as they are, in order, and
\* processJob is called next with the oldest of them, never with this job
IntakeFailureContained(r) ==
  /\ r.stage = "failed"
  /\ r.error = MsgIntake
  /\ ~HasEvent(r, "job_received")
  /\ ~HasEvent(r, "print_started")
  /\ r.convCalls = <<>>
  /\ r.printCalls = <<>>
  /\ timers' = timers
  /\ files' = files
  /\ conversionsToday' = conversionsToday
  /\ currentJob' = NULL
  /\ pendingJobs' = MapDelete(pendingJobs, r.jobId)
  /\ call' # r.jobId
  /\ call' = (IF pendingJobs' = <<>> THEN NULL ELSE pendingJobs'[1].key)

\* C21 as stated: a job whose payload cannot be decoded or written ends
\* failed with exactly one print_complete{success:false}, without
\* job_received, conversion, print or retry, and the other queued jobs are
\* untouched
C21_IntakeFailureOneComplete ==
  [][ \A r \in Range(runs') :
        IntakeFailedInStep(r)
        => /\ IntakeFailureContained(r)
           /\ Len(r.events) = 1
           /\ r.events[1] = EvCompleteFail(r.jobId, MsgIntake)
    ]_vars

\* C21 amended: the same, with the single print_complete{success:false}
\* emitted when the socket is connected at the moment of the failure and no
\* event at all when it is not
C21_IntakeFailureContained ==
  [][ \A r \in Range(runs') :
        IntakeFailedInStep(r)
        => /\ IntakeFailureContained(r)
           /\ r.events = (IF connected
                            THEN << EvCompleteFail(r.jobId, MsgIntake) >>
                            ELSE <<>>)
    ]_vars

\* a job failed at intake, connected, and the next queued job is being
\* started
C21_Witness ==
  /\ call # NULL
  /\ runs # <<>>
  /\ LET r == runs[Len(runs)] IN
       /\ ~r.saved
       /\ r.stage = "failed"
       /\ Len(r.events) = 1
       /\ r.jobId # call
  /\ pendingJobs # <<>>
  /\ pendingJobs[1].key = call
\* the name up to its last dot, or all of it when it has no dot after its
\* first character, followed by .pdf
ExpectedPdf(q) ==
  (IF \E i \in 2..Len(q) : q[i] = "."
   THEN SubSeq(q, 1, (CHOOSE i \in 2..Len(q) :
                        q[i] = "." /\ \A k \in (i+1)..Len(q) : q[k] # ".") - 1)
   ELSE q) \o <<".","p","d","f">>

\* C22: convertDocumentToPDF resolves, with the expected output path, if and
\* only if the process exited without error and the expected output file
\* exists afterwards; a clean exit without that file rejects with a
\* ConversionError, and so does a non-zero exit or a timeout even when the
\* file exists
C22_DocumentTrustsFilesystem ==
  (input.fn = "convertDocumentToPDF" /\ ~Pending)
  => LET expected == ExpectedPdf(input.inputPath) IN
     /\ output.settled \in { "resolved", "rejected" }
     /\ output.settled = "resolved"
          <=> (input.exit = "ok" /\ expected \in input.fs)
     /\ output.settled = "resolved" => output.value = expected
     /\ output.settled = "rejected"
          => /\ output.error.name = "ConversionError"
             /\ output.error.fileType = "document"
     /\ (input.exit = "ok" /\ expected \notin input.fs)
          => output.error.message = MsgNoOutput
     /\ input.exit # "ok" => output.error.message = MsgLibreOffice

\* the process timed out after writing the expected file, and the call was
\* rejected
C22_Witness ==
  /\ input.fn = "convertDocumentToPDF"
  /\ input.exit = "timeout"
  /\ ExpectedPdf(input.inputPath) \in input.fs
  /\ output.settled = "rejected"
\* C23: once its checks have passed, convertImageToPDF enters the magick
\* tier first and once; it enters the convert tier, once and after it, if
\* and only if magick is not installed, ends with an error or leaves no
\* output file; convert is never run after magick succeeded; with convert
\* not installed the call is rejected with the tool-missing error; the
\* promise settles exactly once
C23_ImageTwoTierFallback ==
  (input.fn = "convertImageToPDF" /\ ~Pending)
  => LET env == input.env
         out == ImageOutputPath(input.inputPath)
         after7 == IF env.v7present /\ env.v7wrote
                   THEN input.fs \cup { out } ELSE input.fs
         newerFailed == ~env.v7present \/ env.v7error \/ out \notin after7
     IN
     /\ output.settles = 1
     /\ output.settled \in { "resolved", "rejected" }
     /\ ImagePrecheck(input.inputPath, input.fs) # <<>>
          => /\ output.tried = <<>>
             /\ output.tiers = <<>>
             /\ output.settled = "rejected"
     /\ ImagePrecheck(input.inputPath, input.fs) = <<>>
          => /\ output.tried = IF newerFailed
                               THEN << "tryMagickV7", "tryMagickV6" >>
                               ELSE << "tryMagickV7" >>
             /\ output.tiers =
                  (IF env.v7present THEN << "magick" >> ELSE <<>>)
                    \o (IF newerFailed /\ env.v6present
                        THEN << "convert" >> ELSE <<>>)
             /\ ~newerFailed
                  => (output.settled = "resolved" /\ output.value = out)
             /\ (newerFailed /\ ~env.v6present)
                  => /\ output.settled = "rejected"
                     /\ output.error.name = "ConversionError"
                     /\ output.error.message = MsgNoImageMagick

\* magick ran without error but left no file, and convert then produced it
C23_Witness ==
  /\ input.fn = "convertImageToPDF"
  /\ input.env.v7present /\ ~input.env.v7error
  /\ ~Pending
  /\ output.tiers = << "magick", "convert" >>
  /\ output.settled = "resolved"
\* the names the spooler reports as default destination and the printers
\* it enumerates, in the order of the lines
ReportedDefaults(out) ==
  { pn \in SpoolerPrinters : \E i \in 1..Len(out) : out[i] = DefaultLine(pn) }

Enumerated(out) ==
  SelectSeq(out, LAMBDA l : \E pn \in SpoolerPrinters : l = PrinterLine(pn))

\* C24: a configured name is returned as it is without running lpstat; for
\* "auto", when the spooler answers, the default destination is returned if
\* one is reported, wherever its line stands, else the printer of the first
\* printer line, and the call is rejected with a PrinterError exactly when
\* there is neither
C24_PrinterResolutionChain ==
  (input.fn = "detectPrinter" /\ ~Pending)
  => LET defaults == ReportedDefaults(input.stdout)
         printers == Enumerated(input.stdout)
     IN
     /\ input.printerName # "auto"
          => /\ output.settled = "resolved"
             /\ output.value = input.printerName
             /\ ~output.queried
     /\ input.printerName = "auto"
          => /\ output.queried
             /\ output.settled \in { "resolved", "rejected" }
             /\ output.settled = "rejected"
                  => output.error.name = "PrinterError"
             /\ ~input.error
                  => /\ output.settled = "rejected"
                          <=> (defaults = {} /\ printers = <<>>)
                     /\ defaults # {} => output.value \in defaults
                     /\ (defaults = {} /\ printers # <<>>)
                          => printers[1] = PrinterLine(output.value)

\* the default destination is reported after the line of another printer
\* and is returned
C24_Witness ==
  /\ input.fn = "detectPrinter"
  /\ input.printerName = "auto"
  /\ ~input.error
  /\ Len(input.stdout) >= 2
  /\ input.stdout[1] = PrinterLine("Canon")
  /\ input.stdout[Len(input.stdout)] = DefaultLine("HP")
  /\ ~Pending
  /\ output.settled = "resolved"
  /\ output.value = "HP"
\* kind and code of an error, the fields a handler can tell errors apart by
KindOf(e) == << e.name, e.code >>

\* C25: the error detectPrinter fails with when lpstat cannot be run differs
\* in kind or code from the error it fails with when lpstat answers and
\* lists no printer
C25_SpoolerUnavailableDistinct ==
  (input.fn = "detectPrinter" /\ input.printerName = "auto" /\ input.error
     /\ ~Pending)
  => /\ output.settled = "rejected"
     /\ \A out \in LpstatOutputs :
          LET listed == detectPrinter("auto", FALSE, out) IN
          listed.settled = "rejected"
          => KindOf(output.error) # KindOf(listed.error)
\* the status text holds one of the given phrases, in any capitalisation
Says(phrases) ==
  \E i \in 1..Len(input.phrases) : toLowerCase(input.phrases[i]) \in phrases

\* the fault phrases other than "stopped"
FaultPhrases ==
  MediaEmptyPhrases \cup TonerEmptyPhrases \cup CoverOpenPhrases
    \cup OfflinePhrases

\* the classification of the first rule that matches, in the order
\* media-empty, toner-empty, cover-open, stopped without idle, offline,
\* healthy
FirstRule ==
  CASE Says(MediaEmptyPhrases) ->
         [ status |-> "error", detail |-> "media-empty" ]
    [] ~Says(MediaEmptyPhrases) /\ Says(TonerEmptyPhrases) ->
         [ status |-> "error", detail |-> "toner-empty" ]
    [] ~Says(MediaEmptyPhrases \cup TonerEmptyPhrases)
       /\ Says(CoverOpenPhrases) ->
         [ status |-> "error", detail |-> "cover-open" ]
    [] ~Says(FaultPhrases \ OfflinePhrases)
       /\ Says({ Stopped }) /\ ~Says({ IdleWord }) ->
         [ status |-> "error", detail |-> "stopped" ]
    [] ~Says(FaultPhrases \ OfflinePhrases)
       /\ ~(Says({ Stopped }) /\ ~Says({ IdleWord }))
       /\ Says(OfflinePhrases) ->
         [ status |-> "error", detail |-> "offline" ]
    [] ~Says(FaultPhrases)
       /\ ~(Says({ Stopped }) /\ ~Says({ IdleWord }))
       /\ Says(HealthyPhrases) ->
         [ status |-> "healthy", detail |-> NoDetail ]
    [] OTHER -> [ status |-> "unknown", detail |-> "ipp_unsupported" ]

\* lpstat was run for a named printer and said something
Classified ==
  /\ input.fn = "checkPrinterStatus"
  /\ ~Pending
  /\ input.printerName \notin { NoPrinter, "" }
  /\ input.phrases # <<>>

\* C26: checkPrinterStatus returns the classification of the first matching
\* rule; a text with a fault phrase and a healthy phrase is an error, except
\* that "stopped" with "idle" and no other fault phrase is healthy
C26_FirstMatchClassification ==
  Classified
  => /\ output.value = FirstRule
     /\ (Says(FaultPhrases) /\ Says(HealthyPhrases))
          => output.value.status = "error"
     /\ (Says({ Stopped }) /\ Says(HealthyPhrases) /\ ~Says({ IdleWord }))
          => output.value.status = "error"
     /\ (Says({ Stopped }) /\ Says({ IdleWord }) /\ ~Says(FaultPhrases))
          => output.value.status = "healthy"

\* lpstat said "STOPPED" and "Idle" and the printer was classified healthy
C26_Witness ==
  /\ Classified
  /\ Len(input.phrases) = 2
  /\ input.phrases[1] # toLowerCase(input.phrases[1])
  /\ Says({ Stopped })
  /\ Says({ IdleWord })
  /\ output.value.status = "healthy"

\* C27: checkPrinterStatus always resolves, to healthy, error or unknown;
\* a text without any known phrase gives unknown/ipp_unsupported, an lpstat
\* error without output gives unknown/cups_unavailable, and a missing
\* printer name gives unknown/no_printer_configured without running lpstat
C27_HealthCheckTotal ==
  (input.fn = "checkPrinterStatus" /\ ~Pending)
  => /\ output.settled = "resolved"
     /\ output.value.status \in { "healthy", "error", "unknown" }
     /\ input.printerName \in { NoPrinter, "" }
          => /\ output.value = [ status |-> "unknown",
                                  detail |-> "no_printer_configured" ]
             /\ ~output.queried
     /\ input.printerName \notin { NoPrinter, "" }
          => /\ output.queried
             /\ (input.error /\ input.phrases = <<>>)
                  => output.value = [ status |-> "unknown",
                                      detail |-> "cups_unavailable" ]
             /\ ( /\ ~(input.error /\ input.phrases = <<>>)
                  /\ ~Says(FaultPhrases \cup HealthyPhrases \cup { Stopped }) )
                  => output.value = [ status |-> "unknown",
                                      detail |-> "ipp_unsupported" ]

\* no printer name is held and the check resolved without running lpstat
C27_Witness ==
  /\ input.fn = "checkPrinterStatus"
  /\ input.printerName = NoPrinter
  /\ input.phrases # <<>>
  /\ ~Pending
  /\ output.value.detail = "no_printer_configured"
  /\ ~output.queried
\* C28: a tick of the reset interval that fires in the first minute after
\* local midnight sets jobsFetchedToday, conversionsToday and pollCount to
\* zero and changes nothing else of the agent state; a tick at any other
\* time changes nothing of it
C28_DailyResetFrame ==
  [][ dailyTicks' # dailyTicks
      => /\ UNCHANGED << currentJob, pendingJobs, printerName, lastPollTime,
                         connected, runs, files, timers >>
         /\ IF now % MsPerDay < MsPerMinute
            THEN /\ jobsFetchedToday' = 0
                 /\ conversionsToday' = 0
                 /\ pollCount' = 0
            ELSE UNCHANGED << jobsFetchedToday, conversionsToday, pollCount >>
    ]_vars

\* a tick at 23:59:30 left the counters, the next one reset them, with a job
\* in the pipeline and one queued
C28_Witness ==
  /\ Len(dailyTicks) = 2
  /\ ~dailyTicks[1].reset
  /\ dailyTicks[2].reset
  /\ dailyTicks[2].before = << MaxPolls, MaxJobs, MaxJobs >>
  /\ counters = << 0, 0, 0 >>
  /\ currentJob # NULL
  /\ Len(pendingJobs) = 2
\* C29: a step in which the socket connects or disconnects changes neither
\* currentJob nor pendingJobs nor any activation of processJob; and while
\* the socket is disconnected the step that resumes a job awaiting its
\* converter, its verification or its print remains possible
C29_QueueSurvivesReconnects ==
  /\ [][ connected' # connected
         => UNCHANGED << currentJob, pendingJobs, call, runs, files, timers >>
       ]_vars
  /\ [](\A i \in 1..Len(runs) :
          (~connected /\ Idle)
          => /\ (runs[i].stage = "converting" /\ runs[i].fileType = "document")
                  => ENABLED ConvertDocumentDone
             /\ (runs[i].stage = "converting" /\ runs[i].fileType = "image")
                  => ENABLED ConvertImageDone
             /\ runs[i].stage = "verifying" => ENABLED VerifyDone
             /\ runs[i].stage = "printing" => ENABLED PrintDone)

\* the job was received connected, went through its print disconnected,
\* and the next queued job is being started
C29_Witness ==
  /\ ~connected
  /\ call # NULL
  /\ \E r \in Range(runs) :
       /\ r.stage = "completed"
       /\ HasEvent(r, "job_received")
       /\ ~HasEvent(r, "print_started")
       /\ r.printCalls # <<>>
\* C30: a register event is emitted only while the socket is connected,
\* as the first one since the connect event, with no printer detection
\* still running, and with the name held in state.printerName or "unknown";
\* and a connection that ends has had its register event
C30_RegisterOncePerConnection ==
  [][ /\ (registered' # registered /\ registered' # <<>>)
         => /\ connected'
            /\ Len(registered') = 1
            /\ detecting' = 0
            /\ registered'[1].printer_name =
                 (IF printerName' = NoPrinter THEN "unknown" ELSE printerName')
      /\ (connected /\ ~connected') => Len(registered) = 1
    ]_vars

\* C32 as stated: the pages_printed of every successful print_complete is
\* the page count that verifyPDF measured for the printed file, for pdf
\* payloads and for converted documents and images alike
C32_PagesPrintedMeasured ==
  \A r \in Range(runs) :
    \A e \in Range(r.events) :
      (e.type = "print_complete" /\ e.success) =>
        /\ r.counted > 0
        /\ e.pages_printed = r.counted

\* state.currentJob, when set, is the first key of state.pendingJobs
CurrentJobIsHead ==
  currentJob # NULL =>
    /\ pendingJobs # <<>>
    /\ pendingJobs[1].key = currentJob

\* C33: whenever currentJob is set it is a key of pendingJobs and the oldest
\* one; currentJob changes from a job only by being cleared, and the step
\* that clears it is the step that removes its entry
C33_CurrentJobIsQueueHead ==
  /\ CurrentJobIsHead
  /\ [][ /\ CurrentJobIsHead'
         /\ (currentJob # NULL /\ currentJob' # currentJob) =>
              /\ currentJob' = NULL
              /\ ~MapHas(pendingJobs', currentJob)
         /\ (currentJob # NULL /\ ~MapHas(pendingJobs', currentJob)) =>
              currentJob' = NULL ]_vars

\* a second job was queued behind the current one while it is converted
C33_Witness ==
  /\ currentJob # NULL
  /\ Len(pendingJobs) = 2
  /\ pendingJobs[1].key = currentJob
  /\ pendingJobs[2].key # currentJob
  /\ \E r \in Range(runs) : r.jobId = currentJob /\ r.stage = "converting"

\* C36 as stated: at most one poll request is outstanding at any time
C36_OnePollOutstanding == inflight <= 1

\* C37 as stated: a cleanup timer that fires never unlinks the working file
\* or the printable file of an activation that has not ended
C37_CleanupSparesActiveJob ==
  [][ (timers # <<>> /\ timers' = Tail(timers)) =>
        \A r \in Range(runs) :
          ~Terminal(r) =>
            \A p \in { r.originalPath, r.finalPdfPath } :
              p \in files => p \in files' ]_vars

\* C39 as stated: for every name getFileType classifies as image, whatever
\* the case of its extension, a convertImageToPDF that resolves yields a path
\* other than the input path, and that path ends in .pdf
C39_ImageOutputIsNewPdf ==
  ( /\ input.fn = "convertImageToPDF"
    /\ getFileType(input.inputPath) = "image"
    /\ output.settled = "resolved" )
  => /\ output.value # input.inputPath
     /\ extname(output.value) = DotPdf

\* C31: the SIGINT handler runs whenever the process lives, whatever job is in
\* flight; its step leaves the current job, the queue and every activation
\* as they are and emits nothing, warns exactly when a job is current or the
\* queue is not empty, and disconnects the socket before it exits; nothing
\* happens once the process has exited
C31_InterruptAbandonsInPlace ==
  /\ [](~exited => ENABLED Sigint)
  /\ [][ /\ ( /\ ~exited
              /\ exited'
              /\ shutdownLog'[1] = "Shutting down agent" )
            => /\ UNCHANGED << currentJob, pendingJobs, runs, registered,
                               heartbeats, files, timers >>
               /\ (\E w \in Range(shutdownLog') :
                     w \in { "job was in progress", "jobs in queue" })
                    <=> (currentJob # NULL \/ pendingJobs # <<>>)
               /\ \E a, b \in 1..Len(shutdownLog') :
                    /\ a < b
                    /\ shutdownLog'[a] = "socket.disconnect"
                    /\ shutdownLog'[b] = "process.exit"
               /\ ~connected'
         /\ exited => UNCHANGED vars ]_vars

\* the process was interrupted while printDocument was awaited and a second
\* job was queued: both are still where they were, without a print_complete
C31_Witness ==
  /\ exited
  /\ shutdownLog[1] = "Shutting down agent"
  /\ currentJob = ActiveJob.job_id
  /\ Len(pendingJobs) = 2
  /\ \E r \in Range(runs) :
       r.stage = "printing" /\ CompleteEvents(r) = <<>>

\* C35 as stated: at most one poll interval started by startPolling runs
C35_SinglePollingTimer == pollers <= 1

\* C38 as stated: every heartbeat is emitted while the socket is connected
C38_HeartbeatWhileConnected ==
  \A h \in Range(heartbeats) : h.connected

\* C34: when no job is current and no handler is running the queue is empty,
\* and every job that is in pendingJobs is in time removed from it by an
\* activation of processJob that ended completed or failed
C34_NoStallEventualTermination ==
  /\ []((Idle /\ currentJob = NULL) => pendingJobs = <<>>)
  /\ \A id \in { d.job_id : d \in Descriptors } :
       MapHas(pendingJobs, id)
         ~> ( /\ ~MapHas(pendingJobs, id)
              /\ \E r \in Range(runs) : r.jobId = id /\ Terminal(r) )

\* two jobs were fetched, the second waited for the first, and the worker is
\* idle again with nothing queued
C34_Witness ==
  /\ Idle
  /\ currentJob = NULL
  /\ pendingJobs = <<>>
  /\ jobsFetchedToday >= 2
  /\ \E r \in Range(runs) : Terminal(r) /\ r.jobId = << "j", "3" >>

====
